---- MODULE Spec2Model ----
(***************************************************************************)
(* Dependency engine of context-generator (src/code_processor.py):         *)
(* the path normalizer, the import resolver, the per-language extractors,  *)
(* the direct-dependency orchestrator with its cache, and the transitive   *)
(* closure engine.                                                         *)
(*                                                                         *)
(* Representation of strings.  A path-like string is the sequence of its   *)
(* '/'-separated segments, with every file extension standing as its own   *)
(* element after its stem:  "pkg/helper.py" is <<"pkg","helper",".py">>,   *)
(* "./b" is <<".","b">>, "/etc/x" is <<"","etc","x">> (leading "" marks   *)
(* an absolute path), the empty string is << >> and a name that is only an *)
(* extension has the stem "": "a/.js" is <<"a","",".js">>.  A Python module*)
(* specifier is the list import_str.split('.') yields: "pkg.mod" is        *)
(* <<"pkg","mod">>, ".helper" is <<"","helper">>, "." is <<"","">>.        *)
(***************************************************************************)
EXTENDS Integers, Sequences, FiniteSets, TLC

\* ------------------------------------------------------------------------
\* Bounds of the model
\* ------------------------------------------------------------------------
\* number of raw import specifiers drawn for one file
MaxImports == 2
\* calls of _analyze_single_file_deps_task made directly on one file
MaxAnalyses == 2
\* explicit max_depth arguments tried besides the default: 0..MaxDepthInput
MaxDepthInput == 1
\* frames of _recursive_get_trans the interpreter allows (RecursionError)
StackCap == 6
\* files a JS/TS project holds besides the importing one
MaxJsFiles == 3
\* raw import specifiers per file in the projects process_project_folder runs on
MaxRunImports == 1
\* Phase 1 tasks of a run that let an exception out
MaxFaults == 1
\* values of os.cpu_count() tried besides None: 1..MaxCpu
MaxCpu == 2
\* calls of get_transitive_dependencies_for_file a caller makes in a row
MaxClosures == 2

\* ------------------------------------------------------------------------
\* Program constants
\* ------------------------------------------------------------------------
DefaultMaxDepth == 20

exts_js == <<".js", ".jsx", ".ts", ".tsx", ".json">>
idx_exts_js == <<".js", ".jsx", ".ts", ".tsx">>
common_exts_html == <<".js", ".css", ".html", ".png", ".jpg", ".svg">>

KnownExts ==
  {".py", ".pyw", ".js", ".jsx", ".ts", ".tsx", ".json", ".c", ".cpp", ".cxx",
   ".h", ".hpp", ".hxx", ".html", ".htm", ".css", ".png", ".jpg", ".svg"}

\* AST_PARSERS_MAP: extension -> extractor ("none" when the key is absent)
AST_PARSERS_MAP(ext) ==
  CASE ext \in {".py", ".pyw"} -> "python"
    [] ext \in {".js", ".jsx", ".ts", ".tsx"} -> "js"
    [] ext \in {".c", ".cpp", ".cxx", ".h", ".hpp", ".hxx"} -> "c_cpp"
    [] ext \in {".html", ".htm"} -> "html"
    [] OTHER -> "none"

\* self.project_root = os.path.abspath(project_root), here "/home/proj"
project_root == <<"", "home", "proj">>

\* ------------------------------------------------------------------------
\* Strings and paths
\* ------------------------------------------------------------------------
None == << >>

SeqToSet(s) == {s[i] : i \in 1..Len(s)}

IsExt(e) == e \in KnownExts

\* str.startswith on one directory name: the names of the model that begin
\* with the characters of `prefix`
NameStartsWith(name, prefix) ==
  \/ name = prefix
  \/ prefix = "proj" /\ name \in {"proj2"}

\* an element is a navigation segment ("." or "..") only when no extension
\* is glued to it
IsNav(s, i, nav) == s[i] = nav /\ (i = Len(s) \/ ~IsExt(s[i + 1]))

\* drops the last path component (a stem with the extensions glued to it)
RECURSIVE DropLast(_)
DropLast(s) ==
  IF s = << >> THEN << >>
  ELSE IF IsExt(s[Len(s)]) THEN DropLast(SubSeq(s, 1, Len(s) - 1))
  ELSE SubSeq(s, 1, Len(s) - 1)

\* os.path.abspath / normpath on an absolute path: "", "." are dropped and
\* ".." removes the component before it (never the root)
RECURSIVE Collapse(_, _, _)
Collapse(s, i, acc) ==
  IF i > Len(s) THEN acc
  ELSE IF s[i] = "" /\ i < Len(s) /\ IsExt(s[i + 1])
  THEN Collapse(s, i + 1, Append(acc, ""))
  ELSE IF s[i] = "" \/ IsNav(s, i, ".") THEN Collapse(s, i + 1, acc)
  ELSE IF IsNav(s, i, "..") THEN Collapse(s, i + 1, DropLast(acc))
  ELSE Collapse(s, i + 1, Append(acc, s[i]))

IsAbs(s) == Len(s) >= 1 /\ s[1] = "" /\ (Len(s) = 1 \/ ~IsExt(s[2]))

\* os.path.join(a, b): an absolute b discards a
os_path_join(a, b) == IF IsAbs(b) THEN b ELSE a \o b

\* os.path.abspath of an absolute path, as the list of its components
os_path_abspath(s) == Collapse(s, 1, << >>)

\* project_root as abspath leaves it: its components
RootParts == os_path_abspath(project_root)

\* abs_p.startswith(self.project_root): a comparison of characters, so the
\* last directory name of the root only has to be a prefix
StartsWithRoot(abs_p) ==
  LET n == Len(RootParts) IN
    /\ Len(abs_p) >= n
    /\ \A i \in 1..(n - 1) : abs_p[i] = RootParts[i]
    /\ NameStartsWith(abs_p[n], RootParts[n])

\* number of leading components abs_p shares with the root
RECURSIVE CommonLen(_, _)
CommonLen(abs_p, k) ==
  IF /\ k < Len(RootParts)
     /\ k < Len(abs_p)
     /\ abs_p[k + 1] = RootParts[k + 1]
     /\ (k + 2 > Len(abs_p) \/ ~IsExt(abs_p[k + 2]))
  THEN CommonLen(abs_p, k + 1)
  ELSE k

RECURSIVE Ups(_)
Ups(n) == IF n = 0 THEN << >> ELSE <<"..">> \o Ups(n - 1)

\* os.path.relpath(abs_p, self.project_root)
os_path_relpath(abs_p) ==
  LET c == CommonLen(abs_p, 0)
      r == Ups(Len(RootParts) - c) \o SubSeq(abs_p, c + 1, Len(abs_p))
  IN IF r = << >> THEN <<".">> ELSE r

\* RobustDependencyAnalyzer.normalize_path
normalize_path(p_str, base_d) ==
  LET abs_p == os_path_abspath(
                 os_path_join(os_path_join(project_root, base_d), p_str))
  IN IF ~StartsWithRoot(abs_p) THEN None ELSE os_path_relpath(abs_p)

\* ------------------------------------------------------------------------
\* Import resolver
\* ------------------------------------------------------------------------
AcceptUnchecked(normalized, all_files) ==
  IF normalized # None THEN {normalized} ELSE {}

\* `if normalized and normalized in all_files: resolved.add(normalized)`
AcceptCandidate(normalized, all_files) ==
  IF normalized # None /\ normalized \in all_files THEN {normalized} ELSE {}

\* the candidates of a list that normalize to project files
ResolveCandidates(cands, base_d, all_files) ==
  UNION {AcceptCandidate(normalize_path(cands[i], base_d), all_files) :
           i \in 1..Len(cands)}

\* filter(None, parts): the empty strings are dropped
RECURSIVE FilterNone(_)
FilterNone(parts) ==
  IF parts = << >> THEN << >>
  ELSE IF Head(parts) = "" THEN FilterNone(Tail(parts))
  ELSE <<Head(parts)>> \o FilterNone(Tail(parts))

\* `while parts and parts[0] == '': level += 1; parts.pop(0)`
RECURSIVE LeadingEmpty(_)
LeadingEmpty(parts) ==
  IF parts # << >> /\ Head(parts) = "" THEN 1 + LeadingEmpty(Tail(parts)) ELSE 0

\* base + ext as one path string
Glue(base, ext) == IF base = << >> THEN <<"", ext>> ELSE base \o <<ext>>

\* base + "/" + rest as one path string
JoinSlash(base, rest) == IF base = << >> THEN <<"">> \o rest ELSE base \o rest

\* current_dir.split('/') if current_dir and current_dir != "." else []
DirParts(current_dir) == IF current_dir = <<".">> THEN << >> ELSE current_dir

\* RobustDependencyAnalyzer._resolve_python_import; import_str is given as
\* import_str.split('.')
resolve_python_import(import_str, current_dir, all_files) ==
  LET relative == Len(import_str) >= 2 /\ import_str[1] = ""
      level == LeadingEmpty(import_str)
      parts == SubSeq(import_str, level + 1, Len(import_str))
      current_parts == DirParts(current_dir)
      base_parts ==
        IF level > 1
        THEN SubSeq(current_parts, 1, Len(current_parts) - (level - 1))
        ELSE current_parts
      module_path_parts == IF relative THEN base_parts \o parts ELSE import_str
      module_base_path == FilterNone(module_path_parts)
      candidates == << Glue(module_base_path, ".py"),
                       JoinSlash(module_base_path, <<"__init__", ".py">>) >>
  IN IF relative /\ level - 1 > Len(current_parts) THEN {}
     ELSE ResolveCandidates(candidates, << >>, all_files)

\* number of '/'-separated components of a path string
RECURSIVE Components(_)
Components(s) ==
  IF s = << >> THEN 0
  ELSE (IF IsExt(s[Len(s)]) /\ Len(s) > 1 THEN 0 ELSE 1)
       + Components(SubSeq(s, 1, Len(s) - 1))

\* import_str.startswith(('./', '../', '/'))
StartsRelativeOrRooted(import_str) ==
  /\ Len(import_str) >= 2
  /\ import_str[1] \in {"", ".", ".."}
  /\ ~IsExt(import_str[2])

\* any(base_path_js.endswith(e) for e in exts_js)
EndsWithJsExt(s) == s # << >> /\ s[Len(s)] \in SeqToSet(exts_js)

WithEachNone(base, exts) == << >>

\* [f"{base}{e}" for e in exts]
WithEach(base, exts) == [i \in 1..Len(exts) |-> Glue(base, exts[i])]

\* [f"{base}/index{e}" for e in exts]
WithIndex(base, exts) ==
  [i \in 1..Len(exts) |-> JoinSlash(base, <<"index", exts[i]>>)]

\* RobustDependencyAnalyzer._resolve_js_import
resolve_js_import(import_str, current_dir, all_files, resolver_type) ==
  LET bare == ~StartsRelativeOrRooted(import_str)
      no_slash == Components(import_str) <= 1
      local == ResolveCandidates(WithEach(import_str, exts_js), << >>, all_files)
      dir == IF bare /\ ~no_slash THEN << >> ELSE current_dir
      idx_exts == IF resolver_type \in {"relative_path_js", "relative_path_ts"}
                  THEN idx_exts_js ELSE << >>
      cands_paths_js ==
        <<import_str>>
        \o (IF EndsWithJsExt(import_str) THEN << >>
            ELSE WithEach(import_str, exts_js))
        \o WithIndex(import_str, idx_exts)
  IN IF bare /\ no_slash
     THEN IF local = {} THEN {}
          ELSE local \cup ResolveCandidates(cands_paths_js, dir, all_files)
     ELSE ResolveCandidates(cands_paths_js, dir, all_files)

\* RobustDependencyAnalyzer._resolve_c_import
resolve_c_import(include_str, current_dir, all_files) ==
  AcceptCandidate(normalize_path(include_str, current_dir), all_files)
  \cup AcceptCandidate(normalize_path(include_str, << >>), all_files)

\* resource_str.startswith(('http:', 'https:', '//', 'data:'))
IsExternalUrl(s) ==
  /\ s # << >>
  /\ \/ s[1] \in {"http:", "https:", "data:"}
     \/ Len(s) >= 2 /\ s[1] = "" /\ s[2] = ""

\* '.' not in os.path.basename(resource_str)
BasenameHasNoDot(s) ==
  \/ s = << >>
  \/ ~IsExt(s[Len(s)]) /\ s[Len(s)] \notin {".", ".."}

\* the first extension of the list, from position i on, whose candidate is a
\* project file (`break` after the first match)
RECURSIVE FirstWithExt(_, _, _, _, _)
FirstWithExt(s, exts, i, current_dir, all_files) ==
  IF i > Len(exts) THEN {}
  ELSE LET got == AcceptCandidate(normalize_path(Glue(s, exts[i]), current_dir),
                                  all_files)
       IN IF got # {} THEN got
          ELSE FirstWithExt(s, exts, i + 1, current_dir, all_files)

\* RobustDependencyAnalyzer._resolve_html_resource
resolve_html_resource(resource_str, current_dir, all_files) ==
  LET literal == AcceptCandidate(normalize_path(resource_str, current_dir),
                                 all_files)
  IN IF IsExternalUrl(resource_str) THEN {}
     ELSE IF literal # {} THEN literal
     ELSE IF BasenameHasNoDot(resource_str)
     THEN FirstWithExt(resource_str, common_exts_html, 1, current_dir, all_files)
     ELSE {}

\* RobustDependencyAnalyzer.resolve_import_with_fallbacks
resolve_import_with_fallbacks(raw_imp, res_type, curr_f_dir, all_fs) ==
  CASE res_type = "python_module" ->
         resolve_python_import(raw_imp, curr_f_dir, all_fs)
    [] res_type \in {"relative_path_js", "relative_path_ts"} ->
         resolve_js_import(raw_imp, curr_f_dir, all_fs, res_type)
    [] res_type = "relative_path_c" ->
         resolve_c_import(raw_imp, curr_f_dir, all_fs)
    [] res_type = "relative_path_html_resource" ->
         resolve_html_resource(raw_imp, curr_f_dir, all_fs)
    [] OTHER -> {}

\* ------------------------------------------------------------------------
\* State
\* ------------------------------------------------------------------------
VARIABLES
  all_project_files_set, \* set(all_files_map.keys()): the paths of the run
  content,               \* FileInfo.original_content of every file: whether
                         \* the parser accepts it and the raw specifiers the
                         \* walk of its syntax tree collects
  available,             \* PYJSPARSER_AVAILABLE, LIBCLANG_AVAILABLE,
                         \* BEAUTIFULSOUP_AVAILABLE
  budget,                \* direct-analysis calls the run makes per file
  all_files_map,         \* path -> the mutable fields of its FileInfo
  cache,                 \* DependencyCache._cache
  file_stats,            \* RobustDependencyAnalyzer.file_stats
  returned,              \* history: per path, what each call of
                         \* _analyze_single_file_deps_task on it did, in order
  cl_phase,              \* get_transitive_dependencies_for_file: "idle",
                         \* "running", "analysing" (running, inside the
                         \* analysis of a file on demand), "done" or
                         \* "failed" (it raised)
  target_fp,             \* its target_fp argument
  max_depth,             \* its max_depth argument
  memo_transitive,       \* its memo table
  stack,                 \* the active calls of _recursive_get_trans
  all_transitive_deps_val, \* what it returned
  calls_transitive,      \* history: per target, the calls of
                         \* get_transitive_dependencies_for_file made for
                         \* it, in order: the max_depth argument, how many
                         \* files were "pending" when the call was made,
                         \* whether it has returned, and what it returned
  run_pc,                \* process_project_folder: "none" while the functions
                         \* are used on their own, else "phase1", "phase2"
                         \* or "finished"
  cpu_count,             \* what os.cpu_count() returned (0: None)
  stat_loaded,           \* the Phase 1 tasks that a worker is running: path
                         \* -> the statistics counter its `+= 1` has read
  fault,                 \* the files whose Phase 1 task lets an exception out
  futures_direct,        \* future_to_path_direct: per path "none",
                         \* "submitted", the outcome of the task once it
                         \* ran, or "collected"
  futures_transitive,    \* future_to_path_transitive: per path "none",
                         \* "submitted", "running", "finished", "collected"
  suspended              \* the Phase 2 tasks that have started and are not
                         \* executing: path -> the locals of its call

input_vars == <<all_project_files_set, content, available, budget>>
direct_vars == <<all_files_map, cache, file_stats, returned>>
closure_vars == <<cl_phase, target_fp, max_depth, memo_transitive, stack,
                  all_transitive_deps_val, calls_transitive>>
run_vars == <<run_pc, cpu_count, stat_loaded, fault, futures_direct, futures_transitive,
              suspended>>
vars == <<input_vars, direct_vars, closure_vars, run_vars>>

\* FileInfo as the dataclass constructs it
NewFileInfo ==
  [direct_dependencies |-> {},
   transitive_dependencies |-> {},
   dependency_analysis_status |-> "pending",
   dependency_analysis_error |-> "None"]

\* FileInfo.ext: os.path.splitext(name)[1].lower()
ExtOf(fp) == IF fp # << >> /\ IsExt(fp[Len(fp)]) THEN fp[Len(fp)] ELSE ""

\* os.path.dirname(fp) if os.path.dirname(fp) else ""
os_path_dirname(fp) == DropLast(fp)

\* ------------------------------------------------------------------------
\* Per-language extractors.  An outcome is what a call does: it returns a
\* value or it raises.
\* ------------------------------------------------------------------------
Returns(v) == [raised |-> FALSE, value |-> v, error |-> "None"]
Raises(e) == [raised |-> TRUE, value |-> {}, error |-> e]

\* try: body / except Exception: (log) / return deps -- the parse is the
\* first statement of the body, so deps is still empty in the handler
TryExcept(body) == IF body.raised THEN Returns({}) ELSE body

\* the resolved paths of every collected specifier, never fp itself
\* (`if rpi != fp: deps.add(rpi)`)
ResolvedDeps(fp, imports, res_type, afs) ==
  UNION {resolve_import_with_fallbacks(imp, res_type, os_path_dirname(fp), afs)
           : imp \in imports} \ {fp}

\* '.' * n, as split('.') sees it in front of a module name: n empty strings
RECURSIVE Dots(_)
Dots(n) == IF n = 0 THEN << >> ELSE <<"">> \o Dots(n - 1)

\* ASTPythonAnalyzer.visit_ImportFrom: the specifiers one `from ... import`
\* statement adds to visitor.imports, each as its split('.') list.  The
\* statement is [level, module, names] with module None when absent; the
\* imported names are not looked at.
visit_ImportFrom(node) ==
  IF node.level > 0
  THEN IF node.module # None
       THEN {Dots(node.level) \o node.module}
       ELSE {Dots(node.level + 1)}
  ELSE IF node.module # None THEN {node.module}
  ELSE {}

\* the body of the try statement of analyze_dependencies_python_ast
python_ast_body(fp, ct, afs) ==
  IF ~ct.parses THEN Raises("SyntaxError")
  ELSE Returns(ResolvedDeps(fp, ct.imports, "python_module", afs))

analyze_dependencies_python_ast_uncaught(fp, ct, afs) ==
  python_ast_body(fp, ct, afs)

analyze_dependencies_python_ast(fp, ct, afs) ==
  TryExcept(python_ast_body(fp, ct, afs))

\* 'relative_path_ts' if fp.lower().endswith(('.ts', '.tsx'))
resolver_type_js(fp) ==
  IF ExtOf(fp) \in {".ts", ".tsx"} THEN "relative_path_ts"
  ELSE "relative_path_js"

\* the body of the try statement of analyze_dependencies_js_ast
js_ast_body(fp, ct, afs) ==
  IF ~ct.parses THEN Raises("PyJsParserSyntaxError")
  ELSE Returns(ResolvedDeps(fp, ct.imports, resolver_type_js(fp), afs))

analyze_dependencies_js_ast(fp, ct, afs) ==
  IF ~available["js"] THEN Returns({})
  ELSE TryExcept(js_ast_body(fp, ct, afs))

\* child_node_c.get_included_file(): libclang looks the include up in the
\* directory of the file, then in the project root (the -I arguments)
ClangIncludedFile(include_str, current_dir, afs) ==
  LET here == AcceptCandidate(normalize_path(include_str, current_dir), afs)
      root == AcceptCandidate(normalize_path(include_str, << >>), afs)
  IN IF here # {} THEN here ELSE root

\* one inclusion directive of analyze_dependencies_c_cpp_ast
IncludeDeps(fp, include_str, afs) ==
  LET resolved_clang_path_c ==
        ClangIncludedFile(include_str, os_path_dirname(fp), afs)
  IN IF resolved_clang_path_c # {} /\ resolved_clang_path_c # {fp}
     THEN resolved_clang_path_c
     ELSE resolve_import_with_fallbacks(include_str, "relative_path_c",
                                        os_path_dirname(fp), afs) \ {fp}

\* the body of the try statement of analyze_dependencies_c_cpp_ast
c_cpp_ast_body(fp, ct, afs) ==
  IF ~ct.parses THEN Raises("TranslationUnitLoadError")
  ELSE Returns(UNION {IncludeDeps(fp, inc, afs) : inc \in ct.imports})

analyze_dependencies_c_cpp_ast(fp, ct, afs) ==
  IF ~available["c_cpp"] THEN Returns({})
  ELSE TryExcept(c_cpp_ast_body(fp, ct, afs))

\* the body of the try statement of analyze_dependencies_html_ast
html_ast_body(fp, ct, afs) ==
  IF ~ct.parses THEN Raises("ParserRejectedMarkup")
  ELSE Returns(ResolvedDeps(fp, ct.imports, "relative_path_html_resource", afs))

analyze_dependencies_html_ast(fp, ct, afs) ==
  IF ~available["html"] THEN Returns({})
  ELSE TryExcept(html_ast_body(fp, ct, afs))

\* parser_func(file_info.path, file_info.original_content, analyzer, afs)
parser_func(name, fp, ct, afs) ==
  CASE name = "python" -> analyze_dependencies_python_ast(fp, ct, afs)
    [] name = "js" -> analyze_dependencies_js_ast(fp, ct, afs)
    [] name = "c_cpp" -> analyze_dependencies_c_cpp_ast(fp, ct, afs)
    [] name = "html" -> analyze_dependencies_html_ast(fp, ct, afs)

\* ------------------------------------------------------------------------
\* Direct dependency orchestrator
\* ------------------------------------------------------------------------
\* d[k] = v on a dict
Put(d, k, v) == [x \in DOMAIN d \cup {k} |-> IF x = k THEN v ELSE d[x]]

\* d[k] += 1 on a defaultdict(int)
Increment(d, k) == Put(d, k, (IF k \in DOMAIN d THEN d[k] ELSE 0) + 1)

cache_set_lost(c, fp, deps) == c

\* DependencyCache.set
cache_set(c, fp, deps) == Put(c, fp, deps)

\* lines 430-433: the extractor has been invoked and `out` is what it did
Parsed(fp, out) ==
  IF out.raised
  THEN [raised |-> TRUE, deps |-> {}, status |-> "raised",
        error |-> out.error, parsed |-> TRUE,
        cache |-> cache,
        file_stats |-> Increment(file_stats, <<"ast", ExtOf(fp)>>)]
  ELSE [raised |-> FALSE, deps |-> out.value, status |-> "success",
        error |-> "None", parsed |-> TRUE,
        cache |-> cache_set(cache, fp, out.value),
        file_stats |-> Increment(file_stats, <<"ast", ExtOf(fp)>>)]

NoParserGuessed(fp) ==
  [raised |-> FALSE, deps |-> {}, status |-> "success",
   error |-> "None", parsed |-> FALSE,
   cache |-> cache_set(cache, fp, {}),
   file_stats |-> Increment(file_stats, <<"skipped_dep_analysis", ExtOf(fp)>>)]

\* lines 436-438: no extractor is registered for the extension
NoParser(fp) ==
  [raised |-> FALSE, deps |-> {}, status |-> "skipped (no AST parser)",
   error |-> "None", parsed |-> FALSE,
   cache |-> cache_set(cache, fp, {}),
   file_stats |-> Increment(file_stats, <<"skipped_dep_analysis", ExtOf(fp)>>)]

\* lines 424-426: the cache holds an entry for the path
Cached(fp) ==
  [raised |-> FALSE, deps |-> cache[fp], status |-> "success (cached)",
   error |-> "None", parsed |-> FALSE,
   cache |-> cache, file_stats |-> file_stats]

\* _analyze_single_file_deps_task(file_info, analyzer, all_project_files_set):
\* what it returns or raises, the cache and the statistics it leaves, and
\* whether it invoked the extractor
analyze_single_file_deps_task(fp, afs) ==
  IF fp \in DOMAIN cache THEN Cached(fp)
  ELSE IF AST_PARSERS_MAP(ExtOf(fp)) # "none"
  THEN Parsed(fp, parser_func(AST_PARSERS_MAP(ExtOf(fp)), fp, content[fp], afs))
  ELSE NoParser(fp)

\* lines 428-438: the task function on a path for which line 424 found no
\* cache entry
Analysed(fp, afs) ==
  IF AST_PARSERS_MAP(ExtOf(fp)) # "none"
  THEN Parsed(fp, parser_func(AST_PARSERS_MAP(ExtOf(fp)), fp, content[fp], afs))
  ELSE NoParser(fp)

\* the key of the statistics counter the task of fp increments (lines 430,
\* 436)
StatKey(fp) ==
  IF AST_PARSERS_MAP(ExtOf(fp)) # "none" THEN <<"ast", ExtOf(fp)>>
  ELSE <<"skipped_dep_analysis", ExtOf(fp)>>

\* file_stats[k] read on a defaultdict(int): a missing key is inserted as 0
Load(d, k) == IF k \in DOMAIN d THEN d ELSE Put(d, k, 0)

\* an exception leaves _analyze_single_file_deps_task
Crashed(fp) ==
  [raised |-> TRUE, deps |-> {}, status |-> "raised", error |-> "Exception",
   parsed |-> FALSE, cache |-> cache, file_stats |-> file_stats]

\* what a call of the task function on fp does, the files of `fault` being
\* those on which it lets an exception out
task_outcome(fp, afs) ==
  IF fp \in fault THEN Crashed(fp)
  ELSE analyze_single_file_deps_task(fp, afs)

\* the call of the task function on fp ends without invoking an extractor:
\* it raises, or the cache holds its path (lines 424-426)
EndsAtOnce(fp) == fp \in fault \/ fp \in DOMAIN cache

\* what a call leaves in the history
Record(r) ==
  [raised |-> r.raised, deps |-> r.deps, status |-> r.status,
   parsed |-> r.parsed]

CollectedUnguarded(info, r) ==
  [info EXCEPT !.direct_dependencies = r.deps,
               !.dependency_analysis_status = r.status,
               !.dependency_analysis_error = r.error]

\* the FileInfo after the collecting loop of process_project_folder has
\* taken the result of the task (or its exception)
Collected(info, r) ==
  IF r.raised
  THEN [info EXCEPT !.dependency_analysis_status = "error (task_direct_fatal)",
                    !.dependency_analysis_error = r.error]
  ELSE [info EXCEPT !.direct_dependencies = r.deps,
                    !.dependency_analysis_status = r.status,
                    !.dependency_analysis_error = r.error]

\* the task of fp did r and the collecting loop took it (lines 586-593)
TaskDone(fp, r) ==
  /\ all_files_map' = [all_files_map EXCEPT ![fp] = Collected(@, r)]
  /\ cache' = r.cache
  /\ file_stats' = r.file_stats
  /\ returned' = [returned EXCEPT ![fp] = Append(@, Record(r))]

\* One direct-dependency task of a file, run and collected.
AnalyzeDirect(fp) ==
  /\ cl_phase \notin {"running", "analysing"}
  /\ fp \in all_project_files_set
  /\ Len(returned[fp]) < budget
  /\ TaskDone(fp, task_outcome(fp, all_project_files_set))
  /\ UNCHANGED <<input_vars, closure_vars>>

\* ------------------------------------------------------------------------
\* Transitive closure engine
\* ------------------------------------------------------------------------
EmptyDict == [x \in {} |-> {}]

CutCheckAbsent(current_fp, visited_paths, current_depth, md) == FALSE

CutCheckOneLater(current_fp, visited_paths, current_depth, md) ==
  current_fp \in visited_paths \/ current_depth > md + 1

CutCheckAtCap(current_fp, visited_paths, current_depth, md) ==
  current_fp \in visited_paths \/ current_depth >= md

\* `if current_fp in visited_paths or current_depth > max_depth: return set()`
CutCheck(current_fp, visited_paths, current_depth, md) ==
  current_fp \in visited_paths \/ current_depth > md

InitialTransitiveEmpty(direct_dependencies) == {}

\* `current_transitive_deps = set(file_info_obj.direct_dependencies)`
InitialTransitive(direct_dependencies) == direct_dependencies

NewFrameLoopSkipped(current_fp, visited_paths, current_depth, direct_dependencies) ==
  [current_fp |-> current_fp,
   visited_paths |-> visited_paths \cup {current_fp},
   current_depth |-> current_depth,
   current_transitive_deps |-> InitialTransitive(direct_dependencies),
   todo |-> {}]

\* the frame of a call that goes on to its loop
NewFrame(current_fp, visited_paths, current_depth, direct_dependencies) ==
  [current_fp |-> current_fp,
   visited_paths |-> visited_paths \cup {current_fp},
   current_depth |-> current_depth,
   current_transitive_deps |-> InitialTransitive(direct_dependencies),
   todo |-> direct_dependencies]

UpdateLost(current_transitive_deps, value) == current_transitive_deps

\* `current_transitive_deps.update(_recursive_get_trans(...))`
Update(current_transitive_deps, value) == current_transitive_deps \cup value

OnDemandNotStored(info, r) == info

\* lines 459-462: the FileInfo after the analysis made on demand
OnDemand(info, r) ==
  [info EXCEPT !.direct_dependencies = r.deps,
               !.dependency_analysis_status = r.status,
               !.dependency_analysis_error = r.error]

DeliverToEveryRecord(value, stk, memo, afm, t) ==
  /\ memo_transitive' = memo
  /\ IF stk = << >>
     THEN /\ all_transitive_deps_val' = value
          /\ cl_phase' = "done"
          /\ stack' = << >>
          /\ all_files_map' =
               [fp \in DOMAIN afm |->
                  [afm[fp] EXCEPT !.transitive_dependencies = value]]
     ELSE /\ stack' = [stk EXCEPT ![Len(stk)].current_transitive_deps =
                                    Update(@, value)]
          /\ cl_phase' = "running"
          /\ all_files_map' = afm
          /\ UNCHANGED all_transitive_deps_val

\* A call of _recursive_get_trans returns `value` to the frames stk (its
\* caller on top).  With no caller left, get_transitive_dependencies_for_file
\* stores the value on the target's record and returns it.
Deliver(value, stk, memo, afm, t) ==
  /\ memo_transitive' = memo
  /\ IF stk = << >>
     THEN /\ all_transitive_deps_val' = value
          /\ cl_phase' = "done"
          /\ stack' = << >>
          /\ all_files_map' =
               IF t \in DOMAIN afm
               THEN [afm EXCEPT ![t].transitive_dependencies = value]
               ELSE afm
     ELSE /\ stack' = [stk EXCEPT ![Len(stk)].current_transitive_deps =
                                    Update(@, value)]
          /\ cl_phase' = "running"
          /\ all_files_map' = afm
          /\ UNCHANGED all_transitive_deps_val

FailReset(afm, t) ==
  /\ cl_phase' = "failed"
  /\ stack' = << >>
  /\ all_files_map' =
       IF t \in DOMAIN afm
       THEN [afm EXCEPT ![t].dependency_analysis_status = "pending"]
       ELSE afm
  /\ UNCHANGED <<memo_transitive, all_transitive_deps_val>>

\* An exception leaves get_transitive_dependencies_for_file; the collecting
\* loop of process_project_folder marks the target (lines 609-612).
Fail(afm, t) ==
  /\ cl_phase' = "failed"
  /\ stack' = << >>
  /\ all_files_map' =
       IF t \in DOMAIN afm
       THEN [afm EXCEPT ![t].dependency_analysis_status =
                          @ \o " (transitive_task_fatal)"]
       ELSE afm
  /\ UNCHANGED <<memo_transitive, all_transitive_deps_val>>

\* the call goes on to its loop with these direct dependencies
Push(current_fp, visited_paths, current_depth, stk, memo, direct_dependencies) ==
  /\ stack' = Append(stk, NewFrame(current_fp, visited_paths, current_depth,
                                   direct_dependencies))
  /\ cl_phase' = "running"
  /\ memo_transitive' = memo
  /\ UNCHANGED all_transitive_deps_val

\* lines 458-464 for a file still "pending": its direct dependencies are
\* analysed on demand, and r is what the analysis did
ExpandPending(current_fp, visited_paths, current_depth, stk, memo, t, r) ==
  /\ cache' = r.cache
  /\ file_stats' = r.file_stats
  /\ returned' = [returned EXCEPT ![current_fp] = Append(@, Record(r))]
  /\ IF r.raised
     THEN Fail(all_files_map, t)
     ELSE /\ Push(current_fp, visited_paths, current_depth, stk, memo, r.deps)
          /\ all_files_map' =
               [all_files_map EXCEPT ![current_fp] = OnDemand(@, r)]

CallReanalyses(current_fp, visited_paths, current_depth, stk, memo, t, md) ==
  IF Len(stk) >= StackCap
  THEN Fail(all_files_map, t) /\ UNCHANGED <<cache, file_stats, returned>>
  ELSE IF CutCheck(current_fp, visited_paths, current_depth, md)
  THEN /\ Deliver({}, stk, memo, all_files_map, t)
       /\ UNCHANGED <<cache, file_stats, returned>>
  ELSE IF current_fp \in DOMAIN memo
  THEN /\ Deliver(memo[current_fp], stk, memo, all_files_map, t)
       /\ UNCHANGED <<cache, file_stats, returned>>
  ELSE IF current_fp \notin DOMAIN all_files_map
  THEN /\ Deliver({}, stk, Put(memo, current_fp, {}), all_files_map, t)
       /\ UNCHANGED <<cache, file_stats, returned>>
  ELSE ExpandPending(current_fp, visited_paths, current_depth, stk, memo, t,
         Parsed(current_fp,
                parser_func(AST_PARSERS_MAP(ExtOf(current_fp)), current_fp,
                            content[current_fp], all_project_files_set)))

\* lines 458-459 and 424 for a file still "pending" whose path has no cache
\* entry: the call is in the task function, past its check of the cache and
\* before the extractor; other threads may run before it goes on.  Its
\* frame is there with no direct dependencies yet.
BeginOnDemand(current_fp, visited_paths, current_depth, stk, memo) ==
  /\ stack' = Append(stk, NewFrame(current_fp, visited_paths, current_depth, {}))
  /\ cl_phase' = "analysing"
  /\ memo_transitive' = memo
  /\ UNCHANGED <<all_files_map, cache, file_stats, returned,
                 all_transitive_deps_val>>

CallMemoUnchecked(current_fp, visited_paths, current_depth, stk, memo, t, md) ==
  IF Len(stk) >= StackCap
  THEN Fail(all_files_map, t) /\ UNCHANGED <<cache, file_stats, returned>>
  ELSE IF CutCheck(current_fp, visited_paths, current_depth, md)
  THEN /\ Deliver({}, stk, memo, all_files_map, t)
       /\ UNCHANGED <<cache, file_stats, returned>>
  ELSE IF current_fp \notin DOMAIN all_files_map
  THEN /\ Deliver({}, stk, Put(memo, current_fp, {}), all_files_map, t)
       /\ UNCHANGED <<cache, file_stats, returned>>
  ELSE IF all_files_map[current_fp].dependency_analysis_status = "pending"
  THEN IF EndsAtOnce(current_fp)
       THEN ExpandPending(current_fp, visited_paths, current_depth, stk, memo,
              t, task_outcome(current_fp, all_project_files_set))
       ELSE BeginOnDemand(current_fp, visited_paths, current_depth, stk, memo)
  ELSE /\ Push(current_fp, visited_paths, current_depth, stk, memo,
               all_files_map[current_fp].direct_dependencies)
       /\ UNCHANGED <<all_files_map, cache, file_stats, returned>>

\* _recursive_get_trans(current_fp, visited_paths, current_depth), called with
\* the frames stk below it: lines 446-464, up to the start of its loop
Call(current_fp, visited_paths, current_depth, stk, memo, t, md) ==
  IF Len(stk) >= StackCap
  THEN Fail(all_files_map, t) /\ UNCHANGED <<cache, file_stats, returned>>
  ELSE IF CutCheck(current_fp, visited_paths, current_depth, md)
  THEN /\ Deliver({}, stk, memo, all_files_map, t)
       /\ UNCHANGED <<cache, file_stats, returned>>
  ELSE IF current_fp \in DOMAIN memo
  THEN /\ Deliver(memo[current_fp], stk, memo, all_files_map, t)
       /\ UNCHANGED <<cache, file_stats, returned>>
  ELSE IF current_fp \notin DOMAIN all_files_map
  THEN /\ Deliver({}, stk, Put(memo, current_fp, {}), all_files_map, t)
       /\ UNCHANGED <<cache, file_stats, returned>>
  ELSE IF all_files_map[current_fp].dependency_analysis_status = "pending"
  THEN IF EndsAtOnce(current_fp)
       THEN ExpandPending(current_fp, visited_paths, current_depth, stk, memo,
              t, task_outcome(current_fp, all_project_files_set))
       ELSE BeginOnDemand(current_fp, visited_paths, current_depth, stk, memo)
  ELSE /\ Push(current_fp, visited_paths, current_depth, stk, memo,
               all_files_map[current_fp].direct_dependencies)
       /\ UNCHANGED <<all_files_map, cache, file_stats, returned>>

\* explicit max_depth arguments of the model
MaxDepthArgs == (0..MaxDepthInput) \cup {DefaultMaxDepth}

\* a path that is no key of all_files_map
NotInMap == <<"zz", ".py">>

\* the files whose direct dependencies have not been analysed
PendingFiles ==
  {fp \in DOMAIN all_files_map :
     all_files_map[fp].dependency_analysis_status = "pending"}

\* the history gets the call that is made for t in this step
CallBegins(t, md) ==
  calls_transitive' =
    [calls_transitive EXCEPT ![t] =
       Append(@, [max_depth |-> md,
                  pending |-> Cardinality(PendingFiles),
                  returned |-> cl_phase' = "done",
                  value |-> IF cl_phase' = "done"
                            THEN all_transitive_deps_val' ELSE {}])]

\* the history gets what the executing call returns, if it returns in this
\* step
CallGoesOn ==
  calls_transitive' =
    IF cl_phase' = "done"
    THEN LET log == calls_transitive[target_fp]
         IN [calls_transitive EXCEPT ![target_fp] =
               [log EXCEPT ![Len(log)] =
                  [@ EXCEPT !.returned = TRUE,
                            !.value = all_transitive_deps_val']]]
    ELSE calls_transitive

\* get_transitive_dependencies_for_file(t, ..., max_depth = md) is called:
\* the memo table is created and the outermost call made (lines 443, 472).
get_transitive_dependencies_for_file(t, md) ==
  /\ target_fp' = t
  /\ max_depth' = md
  /\ Call(t, {}, 0, << >>, EmptyDict, t, md)
  /\ CallBegins(t, md)
  /\ UNCHANGED input_vars

\* the first call of get_transitive_dependencies_for_file
StartClosure(t, md) ==
  /\ cl_phase = "idle"
  /\ get_transitive_dependencies_for_file(t, md)

\* the calls of get_transitive_dependencies_for_file made so far
CallsMade ==
  Cardinality(UNION {{<<t, i>> : i \in 1..Len(calls_transitive[t])} :
                       t \in DOMAIN calls_transitive})

\* A caller that has its answer calls get_transitive_dependencies_for_file
\* again, for the same or another target, with the max_depth it uses for
\* all its calls (as the Phase 2 tasks do, lines 601-603).
Again(t) ==
  /\ cl_phase = "done"
  /\ CallsMade < MaxClosures
  /\ get_transitive_dependencies_for_file(t, max_depth)

\* One iteration of `for dep_path_item in file_info_obj.direct_dependencies`
\* (a set: any order), lines 465-467.
LoopStep ==
  /\ cl_phase = "running"
  /\ stack # << >>
  /\ LET top == stack[Len(stack)]
     IN \E dep_path_item \in top.todo :
          LET stk == [stack EXCEPT ![Len(stack)].todo = @ \ {dep_path_item}]
          IN IF dep_path_item \in DOMAIN all_files_map
             THEN Call(dep_path_item, top.visited_paths, top.current_depth + 1,
                       stk, memo_transitive, target_fp, max_depth)
             ELSE /\ stack' = stk
                  /\ UNCHANGED <<direct_vars, cl_phase, memo_transitive,
                                 all_transitive_deps_val>>
  /\ CallGoesOn
  /\ UNCHANGED <<input_vars, target_fp, max_depth>>

\* The analysis made on demand goes on from the extractor to the writes on
\* the record (lines 428-438, 460-464): the innermost call reaches its loop.
OnDemandStep ==
  /\ cl_phase = "analysing"
  /\ LET top == stack[Len(stack)]
     IN ExpandPending(top.current_fp, top.visited_paths, top.current_depth,
                      SubSeq(stack, 1, Len(stack) - 1), memo_transitive,
                      target_fp,
                      Analysed(top.current_fp, all_project_files_set))
  /\ CallGoesOn
  /\ UNCHANGED <<input_vars, target_fp, max_depth>>

\* The loop of the innermost call is over: lines 469-470 (and 472-476 when
\* it is the outermost call).
ReturnStep ==
  /\ cl_phase = "running"
  /\ stack # << >>
  /\ LET top == stack[Len(stack)]
     IN /\ top.todo = {}
        /\ Deliver(top.current_transitive_deps,
                   SubSeq(stack, 1, Len(stack) - 1),
                   Put(memo_transitive, top.current_fp,
                       top.current_transitive_deps),
                   all_files_map, target_fp)
  /\ CallGoesOn
  /\ UNCHANGED <<input_vars, cache, file_stats, returned, target_fp, max_depth>>

\* ------------------------------------------------------------------------
\* process_project_folder: the two phases of the dependency analysis.  The
\* closure variables hold the locals of the Phase 2 task that is executing;
\* the interpreter runs one thread at a time and may switch between the
\* tasks the pool has started at any step.
\* ------------------------------------------------------------------------
NoWorkers(n) == 0

AlwaysFour(n) == 4

\* MAX_THREADS = os.cpu_count() or 4, with None written 0
MAX_THREADS(n) == IF n = 0 THEN 4 ELSE n

\* a future of the pool
Future(state, r) ==
  [state |-> state, raised |-> r.raised, deps |-> r.deps,
   status |-> r.status, error |-> r.error]

NoOutcome == [raised |-> FALSE, deps |-> {}, status |-> "", error |-> "None"]

\* the closure variables when no Phase 2 task is executing
NoCall ==
  /\ cl_phase' = "idle"
  /\ target_fp' = None
  /\ max_depth' = DefaultMaxDepth
  /\ memo_transitive' = EmptyDict
  /\ stack' = << >>
  /\ all_transitive_deps_val' = {}
  /\ UNCHANGED calls_transitive

\* lines 579-582: one Phase 1 task per file is submitted to the pool
SubmitDirect ==
  /\ run_pc = "scanned"
  /\ run_pc' = "phase1"
  /\ futures_direct' =
       [fp \in all_project_files_set |-> Future("submitted", NoOutcome)]
  /\ UNCHANGED <<input_vars, direct_vars, closure_vars, cpu_count,
                 stat_loaded, fault, futures_transitive, suspended>>

\* a worker ran the task of fp and it did r
TaskRan(fp, r) ==
  /\ cache' = r.cache
  /\ file_stats' = r.file_stats
  /\ returned' = [returned EXCEPT ![fp] = Append(@, Record(r))]
  /\ futures_direct' = [futures_direct EXCEPT ![fp] = Future("done", r)]

\* A free worker of the Phase 1 pool takes the task of fp and runs it up to
\* the read of `analyzer.file_stats[...] += 1` (lines 424-430, 436); the
\* statement takes no lock, so other threads may run before its write.
BeginDirectTask(fp) ==
  /\ run_pc = "phase1"
  /\ futures_direct[fp].state = "submitted"
  /\ Cardinality(DOMAIN stat_loaded) < MAX_THREADS(cpu_count)
  /\ IF EndsAtOnce(fp)
     THEN /\ TaskRan(fp, task_outcome(fp, all_project_files_set))
          /\ UNCHANGED stat_loaded
     ELSE /\ stat_loaded' = Put(stat_loaded, fp,
                                Load(file_stats, StatKey(fp))[StatKey(fp)])
          /\ file_stats' = Load(file_stats, StatKey(fp))
          /\ futures_direct' = [futures_direct EXCEPT ![fp].state = "running"]
          /\ UNCHANGED <<cache, returned>>
  /\ UNCHANGED <<input_vars, all_files_map, closure_vars, run_pc, cpu_count,
                 fault, futures_transitive, suspended>>

\* the counter after the write of `+= 1` by a task that had read `loaded`
StoreStat(stats, k, loaded) == Put(stats, k, loaded + 1)

\* The task of fp goes on from the write of the counter to its return
\* (lines 430-434, 436-438).
EndDirectTask(fp) ==
  /\ run_pc = "phase1"
  /\ futures_direct[fp].state = "running"
  /\ TaskRan(fp, [Analysed(fp, all_project_files_set)
                    EXCEPT !.file_stats =
                      StoreStat(file_stats, StatKey(fp), stat_loaded[fp])])
  /\ stat_loaded' = [x \in DOMAIN stat_loaded \ {fp} |-> stat_loaded[x]]
  /\ UNCHANGED <<input_vars, all_files_map, closure_vars, run_pc, cpu_count,
                 fault, futures_transitive, suspended>>

\* A worker of the Phase 1 pool runs the task of fp, or goes on with it.
RunDirectTask(fp) == BeginDirectTask(fp) \/ EndDirectTask(fp)

\* One iteration of the as_completed loop of Phase 1 (lines 583-593): the
\* result, or the exception, of a task that is over goes onto the record.
CollectDirect(fp) ==
  /\ run_pc = "phase1"
  /\ futures_direct[fp].state = "done"
  /\ all_files_map' =
       [all_files_map EXCEPT ![fp] = Collected(@, futures_direct[fp])]
  /\ futures_direct' = [futures_direct EXCEPT ![fp].state = "collected"]
  /\ UNCHANGED <<input_vars, cache, file_stats, returned, closure_vars,
                 run_pc, cpu_count, stat_loaded, fault, futures_transitive,
                 suspended>>

DirectDrainedUnchecked == TRUE

\* the as_completed loop of Phase 1 has taken every future and the `with`
\* block of the pool is left
DirectDrained ==
  \A fp \in all_project_files_set : futures_direct[fp].state = "collected"

\* lines 599-604: one Phase 2 task per file is submitted to a new pool
SubmitTransitive ==
  /\ run_pc = "phase1"
  /\ DirectDrained
  /\ run_pc' = "phase2"
  /\ futures_transitive' = [fp \in all_project_files_set |-> "submitted"]
  /\ UNCHANGED <<input_vars, direct_vars, closure_vars, cpu_count,
                 stat_loaded, fault, futures_direct, suspended>>

\* A worker of the Phase 2 pool that is free starts the task of fp:
\* get_transitive_dependencies_for_file(fp, ...) with the default max_depth.
StartTransitive(fp) ==
  /\ run_pc = "phase2"
  /\ futures_transitive[fp] = "submitted"
  /\ cl_phase = "idle"
  /\ Cardinality(DOMAIN suspended) < MAX_THREADS(cpu_count)
  /\ StartClosure(fp, DefaultMaxDepth)
  /\ futures_transitive' = [futures_transitive EXCEPT ![fp] = "running"]
  /\ UNCHANGED <<run_pc, cpu_count, stat_loaded, fault, futures_direct,
                 suspended>>

\* The interpreter takes the executing Phase 2 task off the processor.
Suspend ==
  /\ run_pc = "phase2"
  /\ cl_phase \in {"running", "analysing"}
  /\ MAX_THREADS(cpu_count) > 1
  /\ \/ suspended # EmptyDict
     \/ \E fp \in all_project_files_set : futures_transitive[fp] = "submitted"
  /\ suspended' = Put(suspended, target_fp,
                      [cl_phase |-> cl_phase,
                       max_depth |-> max_depth,
                       memo_transitive |-> memo_transitive,
                       stack |-> stack])
  /\ NoCall
  /\ UNCHANGED <<input_vars, direct_vars, run_pc, cpu_count, stat_loaded, fault,
                 futures_direct, futures_transitive>>

\* The interpreter lets a suspended Phase 2 task execute again.
Resume(fp) ==
  /\ run_pc = "phase2"
  /\ cl_phase = "idle"
  /\ fp \in DOMAIN suspended
  /\ cl_phase' = suspended[fp].cl_phase
  /\ target_fp' = fp
  /\ max_depth' = suspended[fp].max_depth
  /\ memo_transitive' = suspended[fp].memo_transitive
  /\ stack' = suspended[fp].stack
  /\ suspended' = [x \in DOMAIN suspended \ {fp} |-> suspended[x]]
  /\ UNCHANGED <<input_vars, direct_vars, all_transitive_deps_val,
                 calls_transitive, run_pc, cpu_count, stat_loaded, fault,
                 futures_direct, futures_transitive>>

\* One step of the executing Phase 2 task.
TransitiveStep ==
  /\ run_pc = "phase2"
  /\ LoopStep \/ OnDemandStep \/ ReturnStep
  /\ UNCHANGED run_vars

\* The executing Phase 2 task is over: its future holds what it returned
\* or raised, and its worker is free.
FinishTransitive ==
  /\ run_pc = "phase2"
  /\ cl_phase \in {"done", "failed"}
  /\ futures_transitive' = [futures_transitive EXCEPT ![target_fp] = "finished"]
  /\ NoCall
  /\ UNCHANGED <<input_vars, direct_vars, run_pc, cpu_count, stat_loaded, fault,
                 futures_direct, suspended>>

\* One iteration of the as_completed loop of Phase 2 (lines 605-612).
CollectTransitive(fp) ==
  /\ run_pc = "phase2"
  /\ futures_transitive[fp] = "finished"
  /\ futures_transitive' = [futures_transitive EXCEPT ![fp] = "collected"]
  /\ UNCHANGED <<input_vars, direct_vars, closure_vars, run_pc, cpu_count,
                 stat_loaded, fault, futures_direct, suspended>>

\* line 616: both phases are over
AnalysisComplete ==
  /\ run_pc = "phase2"
  /\ \A fp \in all_project_files_set : futures_transitive[fp] = "collected"
  /\ run_pc' = "finished"
  /\ UNCHANGED <<input_vars, direct_vars, closure_vars, cpu_count,
                 stat_loaded, fault, futures_direct, futures_transitive,
                 suspended>>

\* ------------------------------------------------------------------------
\* Runs
\* ------------------------------------------------------------------------
SubsetsUpTo(S, n) == {x \in SUBSET S : Cardinality(x) <= n}

AllAvailable == [k \in {"js", "c_cpp", "html"} |-> TRUE]

\* the state process_project_folder is in after the scan of a project with
\* these files, contents and parser back-ends
Scanned(files, ct, av, b) ==
  /\ all_project_files_set = files
  /\ content = ct
  /\ available = av
  /\ budget = b
  /\ all_files_map = [fp \in files |-> NewFileInfo]
  /\ cache = EmptyDict
  /\ file_stats = EmptyDict
  /\ returned = [fp \in files |-> << >>]
  /\ cl_phase = "idle"
  /\ target_fp = None
  /\ max_depth = DefaultMaxDepth
  /\ memo_transitive = EmptyDict
  /\ calls_transitive = [t \in files \cup {NotInMap} |-> << >>]
  /\ stack = << >>
  /\ all_transitive_deps_val = {}

\* Python projects: three modules at the project root, each importing up to
\* MaxImports of them (itself included)
PyProject == {<<"a", ".py">>, <<"b", ".py">>, <<"c", ".py">>}
PySpecifiers == {<<"a">>, <<"b">>, <<"c">>}

\* process_project_folder is not running
NoRun ==
  /\ run_pc = "none"
  /\ cpu_count = 0
  /\ stat_loaded = EmptyDict
  /\ fault = {}
  /\ futures_direct = [fp \in all_project_files_set |-> Future("none", NoOutcome)]
  /\ futures_transitive = [fp \in all_project_files_set |-> "none"]
  /\ suspended = EmptyDict

Init ==
  /\ \E ct \in [PyProject ->
                  [parses : {TRUE},
                   imports : SubsetsUpTo(PySpecifiers, MaxImports)]] :
       Scanned(PyProject, ct, AllAvailable, 1)
  /\ NoRun

\* Projects of several languages: their files and, per file, the raw
\* specifiers its source may contain; `backend` is the optional parser the
\* project's extractor needs ("none": Python's, always there)
MixedProjects ==
  { [backend |-> "js",
     pool |-> [fp \in {<<"b", ".js">>, <<"c", ".ts">>} |->
                IF fp = <<"b", ".js">>
                THEN {<<".", "c">>, <<".", "b", ".js">>}
                ELSE {<<".", "b">>, <<"react">>}]],
    [backend |-> "c_cpp",
     pool |-> [fp \in {<<"d", ".h">>, <<"f", ".c">>} |->
                IF fp = <<"f", ".c">>
                THEN {<<"d", ".h">>, <<"", "usr", "include", "stdio", ".h">>}
                ELSE {<<"d", ".h">>, <<"f", ".c">>}]],
    [backend |-> "html",
     pool |-> [fp \in {<<"e", ".html">>, <<"n", ".css">>} |->
                IF fp = <<"e", ".html">>
                THEN {<<"n", ".css">>, <<"https:", "", "cdn", "x", ".js">>}
                ELSE {}]],
    [backend |-> "none",
     pool |-> [fp \in {<<"a", ".py">>, <<"b", ".py">>, <<"n", ".css">>} |->
                IF fp = <<"a", ".py">> THEN {<<"b">>, <<"a">>}
                ELSE IF fp = <<"b", ".py">> THEN {<<"a">>, <<"os">>}
                ELSE {}]] }

\* the contents a project's files may have
Contents(p) ==
  {ct \in [DOMAIN p.pool ->
             [parses : BOOLEAN,
              imports : SubsetsUpTo(UNION {p.pool[fp] : fp \in DOMAIN p.pool},
                                    MaxImports)]] :
     \A fp \in DOMAIN p.pool :
       /\ ct[fp].imports \subseteq p.pool[fp]
       /\ AST_PARSERS_MAP(ExtOf(fp)) = "none" => ct[fp].parses}

\* the optional parsers a project may find installed
Installed(p) ==
  {av \in [{"js", "c_cpp", "html"} -> BOOLEAN] :
     \A k \in DOMAIN av : k # p.backend => av[k]}

InitMixed ==
  /\ \E p \in MixedProjects :
       \E ct \in Contents(p), av \in Installed(p) :
         Scanned(DOMAIN p.pool, ct, av, MaxAnalyses)
  /\ NoRun

\* A project with a package: the `from ... import` statements that the
\* sources of pkg/mod.py and pkg/sub/deep.py may hold
PkgProject ==
  {<<"pkg", "__init__", ".py">>, <<"pkg", "mod", ".py">>,
   <<"pkg", "helper", ".py">>, <<"pkg", "sub", "deep", ".py">>,
   <<"helper", ".py">>}

ImportFromPool ==
  {[level |-> 1, module |-> None, names |-> {"helper"}],
   [level |-> 1, module |-> <<"helper">>, names |-> {"x"}],
   [level |-> 2, module |-> None, names |-> {"helper"}],
   [level |-> 2, module |-> <<"helper">>, names |-> {"x"}],
   [level |-> 3, module |-> <<"helper">>, names |-> {"x"}],
   [level |-> 0, module |-> <<"pkg", "helper">>, names |-> {"x"}]}

\* the content of a Python file whose source is these statements
PySource(stmts) ==
  [parses |-> TRUE,
   imports |-> UNION {visit_ImportFrom(node) : node \in stmts},
   stmts |-> stmts]

InitPkg ==
  /\ \E m \in SubsetsUpTo(ImportFromPool, MaxImports),
        d \in SubsetsUpTo(ImportFromPool, MaxImports) :
       Scanned(PkgProject,
               [fp \in PkgProject |->
                  IF fp = <<"pkg", "mod", ".py">> THEN PySource(m)
                  ELSE IF fp = <<"pkg", "sub", "deep", ".py">> THEN PySource(d)
                  ELSE PySource({})],
               AllAvailable, 1)
  /\ NoRun

\* JS/TS projects: one file that imports './b' and up to MaxJsFiles of the
\* files the specifier could mean, or not
JsImporters ==
  {<<"src", "a", ".js">>, <<"src", "a", ".ts">>, <<"a", ".js">>,
   <<"src", "b", ".ts">>}

JsPool ==
  {<<"src", "b", ".js">>, <<"src", "b", ".ts">>, <<"src", "b", ".json">>,
   <<"src", "b", "index", ".js">>, <<"src", "b", "index", ".tsx">>,
   <<"b", ".js">>, <<"b", "index", ".ts">>, <<"src", "c", ".js">>}

InitJs ==
  /\ \E importer \in JsImporters, others \in SubsetsUpTo(JsPool, MaxJsFiles) :
       Scanned({importer} \cup others,
               [fp \in {importer} \cup others |->
                  [parses |-> TRUE,
                   imports |-> IF fp = importer THEN {<<".", "b">>} ELSE {}]],
               AllAvailable, 1)
  /\ NoRun

\* JS/TS projects: one file that imports the bare specifier 'util' and up to
\* MaxJsFiles of the files named util at the root and elsewhere
BareImporters ==
  {<<"src", "a", ".js">>, <<"src", "a", ".ts">>, <<"a", ".js">>}

BarePool ==
  {<<"util", ".js">>, <<"util", ".ts">>, <<"src", "util", ".js">>,
   <<"src", "util", ".json">>, <<"src", "util", "index", ".tsx">>,
   <<"util", "index", ".js">>, <<"src", "util">>}

InitBare ==
  /\ \E importer \in BareImporters, others \in SubsetsUpTo(BarePool, MaxJsFiles) :
       Scanned({importer} \cup others,
               [fp \in {importer} \cup others |->
                  [parses |-> TRUE,
                   imports |-> IF fp = importer THEN {<<"util">>} ELSE {}]],
               AllAvailable, 1)
  /\ NoRun

\* A JS project whose src/a.js names paths inside and outside of the project
\* root /home/proj
PathPool ==
  {<<".", "b">>, <<"..", "b">>, <<"..", "..", "outside">>,
   <<"..", "..", "proj2", "x", ".js">>, <<"..", "..", "proj", "b", ".js">>,
   <<"..", "..", "..", "etc", "x">>, <<"", "etc", "x">>}

PathProject == {<<"src", "a", ".js">>, <<"b", ".js">>}

InitPaths ==
  /\ \E imps \in SubsetsUpTo(PathPool, MaxImports) :
       Scanned(PathProject,
               [fp \in PathProject |->
                  [parses |-> TRUE,
                   imports |-> IF fp = <<"src", "a", ".js">> THEN imps ELSE {}]],
               AllAvailable, 1)
  /\ NoRun

\* Python projects in which the task function lets an exception out on up
\* to MaxFaults files, used through the functions themselves
InitFaulty ==
  /\ \E ct \in [PyProject ->
                  [parses : {TRUE},
                   imports : SubsetsUpTo(PySpecifiers, MaxRunImports)]] :
       Scanned(PyProject, ct, AllAvailable, MaxAnalyses)
  /\ run_pc = "none"
  /\ cpu_count = 0
  /\ stat_loaded = EmptyDict
  /\ fault \in SubsetsUpTo(PyProject, MaxFaults)
  /\ futures_direct = [fp \in all_project_files_set |-> Future("none", NoOutcome)]
  /\ futures_transitive = [fp \in all_project_files_set |-> "none"]
  /\ suspended = EmptyDict

\* A pool of MaxCpu workers to which get_transitive_dependencies_for_file
\* has been submitted for every file of a Python project whose records are
\* still "pending": the Phase 2 of a caller that ran no Phase 1
InitThreads ==
  /\ \E ct \in [PyProject ->
                  [parses : {TRUE},
                   imports : SubsetsUpTo(PySpecifiers, MaxRunImports)]] :
       Scanned(PyProject, ct, AllAvailable, 1)
  /\ run_pc = "phase2"
  /\ cpu_count = MaxCpu
  /\ stat_loaded = EmptyDict
  /\ fault = {}
  /\ futures_direct = [fp \in all_project_files_set |-> Future("none", NoOutcome)]
  /\ futures_transitive = [fp \in all_project_files_set |-> "submitted"]
  /\ suspended = EmptyDict

\* the values os.cpu_count() may return, None written 0
CpuCounts == 0..MaxCpu

\* process_project_folder has scanned a Python project (lines 526-575)
InitRun ==
  /\ \E ct \in [PyProject ->
                  [parses : {TRUE},
                   imports : SubsetsUpTo(PySpecifiers, MaxRunImports)]] :
       Scanned(PyProject, ct, AllAvailable, 1)
  /\ run_pc = "scanned"
  /\ cpu_count \in CpuCounts
  /\ stat_loaded = EmptyDict
  /\ fault \in SubsetsUpTo(PyProject, MaxFaults)
  /\ futures_direct = [fp \in all_project_files_set |-> Future("none", NoOutcome)]
  /\ futures_transitive = [fp \in all_project_files_set |-> "none"]
  /\ suspended = EmptyDict

\* the functions used on their own: process_project_folder is not running
Next ==
  \/ /\ \E fp \in all_project_files_set : AnalyzeDirect(fp)
     /\ UNCHANGED run_vars
  \/ /\ \E t \in all_project_files_set \cup {NotInMap}, md \in MaxDepthArgs :
          StartClosure(t, md)
     /\ UNCHANGED run_vars
  \/ LoopStep /\ UNCHANGED run_vars
  \/ OnDemandStep /\ UNCHANGED run_vars
  \/ ReturnStep /\ UNCHANGED run_vars

\* a run of process_project_folder
NextRun ==
  \/ SubmitDirect
  \/ \E fp \in all_project_files_set : RunDirectTask(fp)
  \/ \E fp \in all_project_files_set : CollectDirect(fp)
  \/ SubmitTransitive
  \/ \E fp \in all_project_files_set : StartTransitive(fp)
  \/ Suspend
  \/ \E fp \in all_project_files_set : Resume(fp)
  \/ TransitiveStep
  \/ FinishTransitive
  \/ \E fp \in all_project_files_set : CollectTransitive(fp)
  \/ AnalysisComplete

\* closure tasks in a pool, with no direct-dependency phase before them
NextThreads ==
  \/ \E fp \in all_project_files_set : StartTransitive(fp)
  \/ Suspend
  \/ \E fp \in all_project_files_set : Resume(fp)
  \/ TransitiveStep
  \/ FinishTransitive
  \/ \E fp \in all_project_files_set : CollectTransitive(fp)

Spec == Init /\ [][Next]_vars

RunSpec == InitRun /\ [][NextRun]_vars

SpecPkg == InitPkg /\ [][Next]_vars

SpecJs == InitJs /\ [][Next]_vars

SpecPaths == InitPaths /\ [][Next]_vars

SpecBare == InitBare /\ [][Next]_vars

\* the functions used on their own, with callers that ask for several
\* closures one after the other
NextAgain ==
  \/ Next
  \/ /\ \E t \in all_project_files_set : Again(t)
     /\ UNCHANGED run_vars

SpecAgain == Init /\ [][NextAgain]_vars

\* a project of four Python modules where d.py is reached from a.py by
\* chains of different lengths: each file with the imports it may contain
OrderPool ==
  [fp \in {<<"a", ".py">>, <<"b", ".py">>, <<"c", ".py">>, <<"d", ".py">>} |->
     IF fp = <<"a", ".py">> THEN {<<"b">>, <<"c">>}
     ELSE IF fp = <<"b", ".py">> THEN {<<"c">>}
     ELSE IF fp = <<"c", ".py">> THEN {<<"d">>}
     ELSE {<<"a">>}]

InitOrder ==
  /\ \E ct \in [DOMAIN OrderPool ->
                  [parses : {TRUE},
                   imports : SUBSET UNION {OrderPool[fp] : fp \in DOMAIN OrderPool}]] :
       /\ \A fp \in DOMAIN OrderPool : ct[fp].imports \subseteq OrderPool[fp]
       /\ Scanned(DOMAIN OrderPool, ct, AllAvailable, 1)
  /\ NoRun

\* max_depth arguments between the number of files and the default
OrderDepthArgs == {MaxDepthInput + 1, DefaultMaxDepth}

\* callers that ask for the closures of such a project
NextOrder ==
  \/ /\ \E fp \in all_project_files_set : AnalyzeDirect(fp)
     /\ UNCHANGED run_vars
  \/ /\ \E t \in all_project_files_set, md \in OrderDepthArgs :
          StartClosure(t, md)
     /\ UNCHANGED run_vars
  \/ /\ \E t \in all_project_files_set : Again(t)
     /\ UNCHANGED run_vars
  \/ LoopStep /\ UNCHANGED run_vars
  \/ OnDemandStep /\ UNCHANGED run_vars
  \/ ReturnStep /\ UNCHANGED run_vars

SpecOrder == InitOrder /\ [][NextOrder]_vars

SpecThreads == InitThreads /\ [][NextThreads]_vars

SpecFaulty == InitFaulty /\ [][Next]_vars

SpecMixed == InitMixed /\ [][Next]_vars

\* the steps of the thread that called process_project_folder
MainThread ==
  \/ SubmitDirect
  \/ \E fp \in all_project_files_set : CollectDirect(fp)
  \/ SubmitTransitive
  \/ \E fp \in all_project_files_set : CollectTransitive(fp)
  \/ AnalysisComplete

\* a worker of the Phase 2 pool takes up a task or ends one
Dispatch ==
  \/ \E fp \in all_project_files_set : StartTransitive(fp)
  \/ \E fp \in all_project_files_set : Resume(fp)
  \/ FinishTransitive

\* a worker can take a Phase 1 task or go on with one
DirectTaskWaiting ==
  /\ run_pc = "phase1"
  /\ \E fp \in all_project_files_set :
       \/ /\ futures_direct[fp].state = "submitted"
          /\ Cardinality(DOMAIN stat_loaded) < MAX_THREADS(cpu_count)
       \/ futures_direct[fp].state = "running"

\* A run whose threads are scheduled fairly: the main thread and the pool's
\* workers go on whenever they can, and a Phase 2 task that is given the
\* processor again and again takes its next step (Suspend can interrupt it,
\* so its fairness is strong).  Weak fairness of the Phase 1 tasks is
\* written with ENABLED spelt out as DirectTaskWaiting.
RunFairSpec ==
  /\ RunSpec
  /\ WF_vars(MainThread)
  /\ WF_vars(Dispatch)
  /\ SF_vars(TransitiveStep)
  /\ \/ []<>(~DirectTaskWaiting)
     \/ []<><<\E fp \in all_project_files_set : RunDirectTask(fp)>>_vars

\* A call that has started runs on: weak fairness of the steps of the
\* recursion, WF_vars(LoopStep \/ OnDemandStep \/ ReturnStep), with ENABLED
\* written as the state predicate it equals (a step is possible exactly
\* while a call runs: the top frame is in its analysis on demand, has a
\* dependency left to visit, or returns).
FairSpec ==
  /\ Spec
  /\ \/ []<>(cl_phase \notin {"running", "analysing"})
     \/ []<><<LoopStep \/ OnDemandStep \/ ReturnStep>>_vars


\* ------------------------------------------------------------------------
\* The dependency graph of a project, for the statements below
\* ------------------------------------------------------------------------
\* the direct dependencies the extractor of a file finds in its source
DirectEdges(fp) ==
  IF AST_PARSERS_MAP(ExtOf(fp)) = "none" THEN {}
  ELSE parser_func(AST_PARSERS_MAP(ExtOf(fp)), fp, content[fp],
                   all_project_files_set).value

RECURSIVE EdgeClosure(_)
EdgeClosure(S) ==
  IF UNION {DirectEdges(x) : x \in S} \subseteq S THEN S
  ELSE EdgeClosure(S \cup UNION {DirectEdges(x) : x \in S})

\* the files reachable from fp by one or more direct-dependency edges
Reach(fp) == EdgeClosure(DirectEdges(fp))

\* two distinct files on a common dependency cycle
OnCommonCycle(a, b) == a # b /\ b \in Reach(a) /\ a \in Reach(b)

SetMax(S) == CHOOSE x \in S : \A y \in S : y <= x

\* edges of the longest chain of distinct files that starts at fp and avoids
\* the files of `visited`
RECURSIVE LongestChain(_, _)
LongestChain(fp, visited) ==
  IF DirectEdges(fp) \ visited = {} THEN 0
  ELSE 1 + SetMax({LongestChain(d, visited \cup {d}) :
                     d \in DirectEdges(fp) \ visited})

\* the closure computation of the run has returned, for a file of the project
ClosureDone == cl_phase = "done" /\ target_fp \in DOMAIN all_files_map

\* the depth cap cuts nothing: no chain of distinct files from the target is
\* longer than max_depth edges
DepthCapNotReached == LongestChain(target_fp, {target_fp}) <= max_depth

\* ------------------------------------------------------------------------
\* Claims
\* ------------------------------------------------------------------------
\* C1: a file never appears in its own direct-dependency set nor in its own
\* transitive-dependency set, cycles included.  (Violated: for a.py <-> b.py
\* the closure of a.py holds a.py.)
C1_NoSelfDependency ==
  \A fp \in DOMAIN all_files_map :
    /\ fp \notin all_files_map[fp].direct_dependencies
    /\ fp \notin all_files_map[fp].transitive_dependencies

\* C2: once the closure computation of a file has returned, the file's
\* transitive-dependency set includes its direct-dependency set, and so does
\* the returned value.
C2_TransitiveIncludesDirect ==
  ClosureDone =>
    /\ all_files_map[target_fp].direct_dependencies
         \subseteq all_files_map[target_fp].transitive_dependencies
    /\ all_files_map[target_fp].direct_dependencies
         \subseteq all_transitive_deps_val

\* C2 witness: a closure has returned for a file with direct dependencies
\* and with further, indirect ones.
C2_Witness ==
  /\ ClosureDone
  /\ all_files_map[target_fp].direct_dependencies # {}
  /\ all_files_map[target_fp].transitive_dependencies
       # all_files_map[target_fp].direct_dependencies

\* C3 as stated: the transitive set computed for a target holds every other
\* file that lies on a common dependency cycle with it.  (Violated when the
\* depth cap cuts the cycle: max_depth = 0 and a.py -> b.py -> c.py -> a.py.)
C3_CycleMembersIncluded ==
  ClosureDone =>
    \A b \in DOMAIN all_files_map :
      OnCommonCycle(target_fp, b) =>
        b \in all_files_map[target_fp].transitive_dependencies

\* C3 amended: the same, provided the depth cap is not reached, i.e. no chain
\* of distinct files from the target is longer than max_depth edges.
C3_CycleMembersIncludedBelowCap ==
  ClosureDone /\ DepthCapNotReached =>
    \A b \in DOMAIN all_files_map :
      OnCommonCycle(target_fp, b) =>
        b \in all_files_map[target_fp].transitive_dependencies

\* C3 witness: the closure of a target on a cycle through all three files
\* has returned under the default cap.
C3_Witness ==
  /\ ClosureDone
  /\ DepthCapNotReached
  /\ \A b \in DOMAIN all_files_map \ {target_fp} : OnCommonCycle(target_fp, b)
  /\ \E b \in DOMAIN all_files_map :
       b \in Reach(target_fp) \ DirectEdges(target_fp)

\* C4: for every project graph, cyclic or not, and every target, the closure
\* computation that has started returns.
C4_ClosureTerminates == (cl_phase = "running") ~> (cl_phase = "done")

\* C4 witness: a closure has returned for a target that lies on a cycle.
C4_Witness == ClosureDone /\ target_fp \in Reach(target_fp)

\* C5: in every state of a run, every path in any file's direct- or
\* transitive-dependency set is a member of the project file set.
C5_NoDanglingReferences ==
  \A fp \in DOMAIN all_files_map :
    /\ all_files_map[fp].direct_dependencies \subseteq all_project_files_set
    /\ all_files_map[fp].transitive_dependencies
         \subseteq all_project_files_set

\* C5 witness: direct and transitive dependencies are stored for a file;
\* each module it names also has a candidate (`<module>/__init__.py`) that
\* is no file of the project.
C5_Witness ==
  /\ ClosureDone
  /\ all_files_map[target_fp].transitive_dependencies # {}
  /\ all_files_map[target_fp].direct_dependencies # {}

\* C6: a second direct-dependency analysis of the same file in a run returns
\* the dependency set of the first, reports "success (cached)" and does not
\* invoke the extractor.
C6_SecondAnalysisCached ==
  \A fp \in DOMAIN returned :
    \A i \in 2..Len(returned[fp]) :
      /\ ~returned[fp][i].raised
      /\ returned[fp][i].deps = returned[fp][1].deps
      /\ returned[fp][i].status = "success (cached)"
      /\ ~returned[fp][i].parsed

\* C6 witness: a file whose extractor found dependencies has been analysed
\* twice.
C6_Witness ==
  \E fp \in DOMAIN returned :
    /\ Len(returned[fp]) >= 2
    /\ returned[fp][1].parsed
    /\ returned[fp][1].deps # {}

\* the files whose extension has no registered extractor
NoExtractor(fp) == AST_PARSERS_MAP(ExtOf(fp)) = "none"

\* C7 as stated: every direct-dependency analysis of a file with no
\* registered extractor reports "skipped (no parser)" and an empty set.
\* The status string of the code, "skipped (no AST parser)", is taken for the
\* one the statement names.  (Violated: from the second analysis of the file
\* on the status is "success (cached)".)
C7_NoExtractorSkipped ==
  \A fp \in DOMAIN returned :
    NoExtractor(fp) =>
      \A i \in 1..Len(returned[fp]) :
        /\ returned[fp][i].status
             \in {"skipped (no parser)", "skipped (no AST parser)"}
        /\ returned[fp][i].deps = {}

\* C7 amended: every analysis of such a file returns an empty set without
\* invoking an extractor; the first reports "skipped (no AST parser)" and
\* every later one in the run "success (cached)".
C7_NoExtractorSkippedThenCached ==
  \A fp \in DOMAIN returned :
    NoExtractor(fp) =>
      \A i \in 1..Len(returned[fp]) :
        /\ returned[fp][i].deps = {}
        /\ ~returned[fp][i].parsed
        /\ ~returned[fp][i].raised
        /\ returned[fp][i].status =
             IF i = 1 THEN "skipped (no AST parser)" ELSE "success (cached)"

\* C7 witness: a file with no registered extractor has been analysed twice
\* and its record holds the second result.
C7_Witness ==
  \E fp \in DOMAIN returned :
    /\ NoExtractor(fp)
    /\ Len(returned[fp]) >= 2
    /\ all_files_map[fp].dependency_analysis_status = "success (cached)"

\* the optional parser the extractor of a file needs is not installed
BackendMissing(fp) ==
  /\ AST_PARSERS_MAP(ExtOf(fp)) \in DOMAIN available
  /\ ~available[AST_PARSERS_MAP(ExtOf(fp))]

\* C8: when the optional parser of a file's extractor is unavailable, the
\* analysis of the file yields an empty set and a "skipped" status, not a
\* success and not an error.  (Violated: the status is "success".)
C8_MissingBackendSkipped ==
  \A fp \in DOMAIN returned :
    BackendMissing(fp) =>
      \A i \in 1..Len(returned[fp]) :
        /\ returned[fp][i].deps = {}
        /\ ~returned[fp][i].raised
        /\ returned[fp][i].status
             \in {"skipped", "skipped (no parser)", "skipped (no AST parser)"}

\* the source of a file is handed to a parser that rejects it
ParseFails(fp) ==
  /\ ~content[fp].parses
  /\ ~NoExtractor(fp)
  /\ ~BackendMissing(fp)

\* C9: when a file's source cannot be parsed, its extractor raises nothing,
\* the file's direct-dependency set is empty, and every other file analysed
\* in the run has the dependencies of its own source.
C9_ParseFailureContained ==
  \A fp \in DOMAIN returned :
    ParseFails(fp) =>
      /\ \A i \in 1..Len(returned[fp]) :
           ~returned[fp][i].raised /\ returned[fp][i].deps = {}
      /\ all_files_map[fp].direct_dependencies = {}
      /\ all_files_map[fp].dependency_analysis_status
           # "error (task_direct_fatal)"
      /\ \A g \in DOMAIN returned \ {fp} :
           Len(returned[g]) > 0 =>
             all_files_map[g].direct_dependencies = DirectEdges(g)

\* C9 witness: a file that cannot be parsed has been analysed, and so has
\* another file, whose dependencies were found.
C9_Witness ==
  \E fp \in DOMAIN returned, g \in DOMAIN returned :
    /\ g # fp
    /\ ParseFails(fp)
    /\ Len(returned[fp]) > 0
    /\ returned[fp][1].parsed
    /\ Len(returned[g]) > 0
    /\ all_files_map[g].direct_dependencies # {}

\* C10: when a file's source cannot be parsed, the status recorded on the
\* file's record is a warning or error outcome, not a success status.
\* (Violated: the status is "success".)
C10_ParseFailureStatus ==
  \A fp \in DOMAIN all_files_map :
    ParseFails(fp) =>
      all_files_map[fp].dependency_analysis_status
        \notin {"success", "success (cached)"}

\* the record of a file whose Phase 1 task returned
AnalysedRecord(fp) ==
  [direct_dependencies |-> DirectEdges(fp),
   transitive_dependencies |-> {},
   dependency_analysis_status |-> "success",
   dependency_analysis_error |-> "None"]

\* the record of a file whose Phase 1 task raised
FatalRecord ==
  [direct_dependencies |-> {},
   transitive_dependencies |-> {},
   dependency_analysis_status |-> "error (task_direct_fatal)",
   dependency_analysis_error |-> "Exception"]

\* the fields of a record that Phase 1 writes
DirectFields(info) == [info EXCEPT !.transitive_dependencies = {}]

\* C11: if the Phase 1 task of a file raises, the file's record gets the
\* fatal error status with the exception text; every other file's record is
\* what its own task makes it (untouched until its result is collected, its
\* own result afterwards), and once Phase 1 is over every other file's result
\* is recorded.
C11_TaskFailureContained ==
  run_pc # "none" =>
    \A fp \in all_project_files_set :
      /\ DirectFields(all_files_map[fp]) =
           IF futures_direct[fp].state # "collected" THEN NewFileInfo
           ELSE IF fp \in fault THEN FatalRecord
           ELSE AnalysedRecord(fp)
      /\ run_pc \in {"phase2", "finished"} =>
           futures_direct[fp].state = "collected"

\* C11 witness: a run is over in which the task of one file raised and
\* another file's dependencies were found and recorded.
C11_Witness ==
  /\ run_pc = "finished"
  /\ \E fp \in fault :
       all_files_map[fp].dependency_analysis_status
         = "error (task_direct_fatal)"
  /\ \E g \in all_project_files_set \ fault :
       all_files_map[g].direct_dependencies # {}

\* a Phase 2 task of the run has started
TransitiveStarted ==
  \/ cl_phase # "idle"
  \/ suspended # EmptyDict
  \/ \E fp \in all_project_files_set :
       futures_transitive[fp] \in {"running", "finished", "collected"}

\* C12: in every run and under every interleaving, no Phase 2 task has
\* started unless every Phase 1 task is over and its result is on its file's
\* record.
C12_PhaseOrder ==
  run_pc # "none" /\ TransitiveStarted =>
    \A fp \in all_project_files_set :
      /\ futures_direct[fp].state = "collected"
      /\ all_files_map[fp].dependency_analysis_status # "pending"
      /\ Len(returned[fp]) = 1

\* C12 witness: two Phase 2 tasks have started, one executing and one
\* suspended, and a third is still waiting for a worker.
C12_Witness ==
  /\ run_pc = "phase2"
  /\ cl_phase = "running"
  /\ suspended # EmptyDict
  /\ \E fp \in all_project_files_set : futures_transitive[fp] = "submitted"

\* C13: for every pool size and every interleaving of worker tasks a run
\* finishes both phases, whether or not tasks raised, and when it has
\* finished no file has the status "pending".
C13_RunFinishes ==
  <>[](/\ run_pc = "finished"
       /\ \A fp \in all_project_files_set :
            all_files_map[fp].dependency_analysis_status # "pending")

\* C13 witness: a run with a pool of one worker, in which a Phase 1 task
\* raised, has finished both phases.
C13_Witness ==
  /\ run_pc = "finished"
  /\ MAX_THREADS(cpu_count) = 1
  /\ fault # {}
  /\ \A fp \in all_project_files_set : futures_transitive[fp] = "collected"

\* fp's source holds `from . import name`
ImportsSibling(fp, name) ==
  \E node \in content[fp].stmts :
    node.level = 1 /\ node.module = None /\ name \in node.names

\* C14: a Python file in directory D that contains `from . import name`,
\* with D/name.py in the project, has D/name.py in its direct-dependency
\* set.  (Violated: pkg/mod.py with `from . import helper` gets the empty
\* set; the visitor records only ".".)
C14_FromDotImportSibling ==
  \A fp \in DOMAIN returned :
    Len(returned[fp]) > 0 =>
      \A name \in {"helper"} :
        /\ ImportsSibling(fp, name)
        /\ os_path_dirname(fp) \o <<name, ".py">> \in all_project_files_set
        => os_path_dirname(fp) \o <<name, ".py">>
             \in all_files_map[fp].direct_dependencies

\* the paths './b' may mean for a file in directory D: D/b, D/b with each
\* extension, and the index files of D/b
DotSlashB(D) ==
  {D \o <<"b">>}
  \cup {D \o <<"b", e>> : e \in {".js", ".jsx", ".ts", ".tsx", ".json"}}
  \cup {D \o <<"b", "index", e>> : e \in {".js", ".jsx", ".ts", ".tsx"}}

\* C15: for a JS/TS file in directory D that imports './b', the resolver
\* returns exactly the project files among D/b, D/b.{js,jsx,ts,tsx,json} and
\* D/b/index.{js,jsx,ts,tsx}, and these (the importing file itself left out)
\* are the file's direct dependencies.
C15_RelativeJsImport ==
  \A fp \in DOMAIN returned :
    content[fp].imports = {<<".", "b">>} =>
      /\ resolve_import_with_fallbacks(<<".", "b">>, resolver_type_js(fp),
                                       os_path_dirname(fp),
                                       all_project_files_set)
           = DotSlashB(os_path_dirname(fp)) \cap all_project_files_set
      /\ Len(returned[fp]) > 0 =>
           all_files_map[fp].direct_dependencies
             = (DotSlashB(os_path_dirname(fp)) \cap all_project_files_set)
               \ {fp}

\* C15 witness: src/a.js imports './b', of the candidates only src/b.ts
\* exists (b.js exists at the root), and the analysis found {src/b.ts}.
C15_Witness ==
  /\ <<"src", "a", ".js">> \in DOMAIN returned
  /\ Len(returned[<<"src", "a", ".js">>]) > 0
  /\ <<"b", ".js">> \in all_project_files_set
  /\ all_files_map[<<"src", "a", ".js">>].direct_dependencies
       = {<<"src", "b", ".ts">>}

\* the absolute path normalize_path resolves p_str to
ResolvedAbs(p_str, base_d) ==
  os_path_abspath(os_path_join(os_path_join(project_root, base_d), p_str))

\* abs_p is the project root directory or lies below it
InsideRoot(abs_p) ==
  /\ Len(abs_p) >= Len(RootParts)
  /\ SubSeq(abs_p, 1, Len(RootParts)) = RootParts

\* C16: for every path string of a source and every base directory, the
\* Path Normalizer returns None when the resolved absolute path is not
\* inside the project root, a sibling directory whose name begins with the
\* root's name included, and never returns a path that starts with "..".
\* (Violated: "../../proj2/x.js" from src gives "../proj2/x.js".)
C16_NormalizeStaysInside ==
  \A fp \in all_project_files_set :
    \A p_str \in content[fp].imports :
      \A base_d \in {os_path_dirname(fp), << >>} :
        /\ ~InsideRoot(ResolvedAbs(p_str, base_d))
             => normalize_path(p_str, base_d) = None
        /\ normalize_path(p_str, base_d) # None
             => Head(normalize_path(p_str, base_d)) # ".."

\* the Phase 2 tasks that have started and are not over: each holds a worker
InFlight ==
  {fp \in all_project_files_set : futures_transitive[fp] = "running"}

\* C17 as stated: the pool of a run has as many workers as the hardware has
\* processors and never fewer than 4, whatever os.cpu_count() returns.
\* (Violated: with os.cpu_count() = 1 the pool has one worker.)
C17_PoolAtLeastFour ==
  run_pc # "none" =>
    /\ MAX_THREADS(cpu_count) >= 4
    /\ MAX_THREADS(cpu_count) >= cpu_count

\* C17 amended: the pool has os.cpu_count() workers, and 4 only when the
\* count is unknown (None): no more tasks than that hold a worker at a time.
C17_PoolIsCpuCountOrFour ==
  run_pc # "none" =>
    /\ MAX_THREADS(cpu_count) = (IF cpu_count = 0 THEN 4 ELSE cpu_count)
    /\ Cardinality(InFlight) <= (IF cpu_count = 0 THEN 4 ELSE cpu_count)

\* C17 witness: with os.cpu_count() = 2 two Phase 2 tasks hold the workers
\* and a third waits for one.
C17_Witness ==
  /\ run_pc = "phase2"
  /\ cpu_count = 2
  /\ Cardinality(InFlight) = 2
  /\ \E fp \in all_project_files_set : futures_transitive[fp] = "submitted"

\* C18: once a file's analysis status has left "pending", no step sets it
\* back to "pending": not a repeated analysis, not the analysis made on
\* demand during a closure computation, not the handling of a closure
\* computation that raised.
C18_StatusNeverBackToPending ==
  [][\A fp \in DOMAIN all_files_map :
       all_files_map[fp].dependency_analysis_status # "pending"
         => all_files_map'[fp].dependency_analysis_status # "pending"]_vars

\* C18 witness: a closure computation raised in an analysis made on demand,
\* after its target had been analysed and after it had analysed another
\* file on demand: the target's status carries the failure mark.
C18_Witness ==
  /\ cl_phase = "failed"
  /\ target_fp \in DOMAIN all_files_map
  /\ all_files_map[target_fp].dependency_analysis_status
       = "success (transitive_task_fatal)"
  /\ \E fp \in DOMAIN all_files_map \ {target_fp} :
       /\ all_files_map[fp].dependency_analysis_status = "success"
       /\ Len(returned[fp]) = 1
       /\ Len(returned[target_fp]) = 1

\* C19: when no chain of distinct files from the target is longer than the
\* depth cap, the transitive set computed for the target, the target itself
\* left aside, is exactly the set of the other files reachable from the
\* target by one or more direct-dependency edges, in cyclic graphs too and
\* whatever sub-results were memoized.
C19_ExactReachabilityBelowCap ==
  ClosureDone /\ DepthCapNotReached =>
    all_files_map[target_fp].transitive_dependencies \ {target_fp}
      = Reach(target_fp) \ {target_fp}

\* C19 witness: the target depends directly on two files that lie on a
\* common cycle, so the second of them was answered from a memoized
\* sub-result computed while the first was being visited, a sub-result that
\* is not the full reachable set of its file; the closure has returned.
C19_Witness ==
  /\ ClosureDone
  /\ DepthCapNotReached
  /\ \E a, b \in DirectEdges(target_fp) \ {target_fp} :
       /\ OnCommonCycle(a, b)
       /\ {a, b} \subseteq DOMAIN memo_transitive
       /\ \E m \in {a, b} : memo_transitive[m] # Reach(m)
  /\ all_files_map[target_fp].transitive_dependencies # {}

\* the files S together with those reachable from S by at most k edges
RECURSIVE Ball(_, _)
Ball(S, k) ==
  IF k = 0 \/ UNION {DirectEdges(x) : x \in S} \subseteq S THEN S
  ELSE Ball(S \cup UNION {DirectEdges(x) : x \in S}, k - 1)

\* the files reachable from fp by a chain of one to k direct-dependency edges
WithinEdges(fp, k) == IF k = 0 THEN {} ELSE Ball(DirectEdges(fp), k - 1)

\* C20: every file of the transitive set computed for a target is reachable
\* from the target by a chain of at most max_depth direct-dependency edges.
C20_MembersWithinMaxDepth ==
  ClosureDone =>
    all_files_map[target_fp].transitive_dependencies
      \subseteq WithinEdges(target_fp, max_depth)

\* C20 amended: every file of the transitive set computed for a target is
\* reachable from the target by a chain of at most max_depth + 1
\* direct-dependency edges: a file visited at depth max_depth still
\* contributes its direct dependencies.
C20_MembersWithinMaxDepthPlusOne ==
  ClosureDone =>
    all_files_map[target_fp].transitive_dependencies
      \subseteq WithinEdges(target_fp, max_depth + 1)

\* C20 witness: the closure has returned with a member that needs
\* max_depth + 1 edges, and the cap has left out a file that is reachable
\* by a longer chain only.
C20_Witness ==
  /\ ClosureDone
  /\ max_depth >= 1
  /\ \E fp \in all_files_map[target_fp].transitive_dependencies :
       fp \notin WithinEdges(target_fp, max_depth)
  /\ Reach(target_fp) \ all_files_map[target_fp].transitive_dependencies # {}

\* the root-level files 'util' may mean: util.{js,jsx,ts,tsx,json}
RootLevelUtil == {<<"util", e>> : e \in SeqToSet(exts_js)}

\* C21: the bare JS/TS specifier 'util' is resolved against the project root
\* only: the result is empty when no root-level file util.{js,jsx,ts,tsx,json}
\* exists, and otherwise every returned path is such a root-level file,
\* whatever files exist in the importing file's own directory; the direct
\* dependencies of the importing file are such files.  (Violated: once a
\* root-level util.js exists, src/util.js and src/util/index.tsx are
\* returned too.)
C21_BareSpecifierRootOnly ==
  \A fp \in DOMAIN returned :
    content[fp].imports = {<<"util">>} =>
      /\ RootLevelUtil \cap all_project_files_set = {} =>
           resolve_import_with_fallbacks(<<"util">>, resolver_type_js(fp),
                                         os_path_dirname(fp),
                                         all_project_files_set) = {}
      /\ resolve_import_with_fallbacks(<<"util">>, resolver_type_js(fp),
                                       os_path_dirname(fp),
                                       all_project_files_set)
           \subseteq RootLevelUtil
      /\ all_files_map[fp].direct_dependencies \subseteq RootLevelUtil

\* the first half of that statement alone, for projects with no root-level
\* util file, holds
C21_NoRootFileNothing ==
  \A fp \in DOMAIN returned :
    /\ content[fp].imports = {<<"util">>}
    /\ RootLevelUtil \cap all_project_files_set = {}
    => /\ resolve_import_with_fallbacks(<<"util">>, resolver_type_js(fp),
                                        os_path_dirname(fp),
                                        all_project_files_set) = {}
       /\ all_files_map[fp].direct_dependencies = {}

\* the files whose Phase 1 task went through the `+= 1` of counter k
Dispatched(k) ==
  {fp \in all_project_files_set :
     /\ StatKey(fp) = k
     /\ Len(returned[fp]) > 0
     /\ ~returned[fp][1].raised
     /\ returned[fp][1].status # "success (cached)"}

\* Phase 1 of the run is over
PhaseOneOver == run_pc \in {"phase2", "finished"}

\* C22: under every interleaving of the Phase 1 tasks, after Phase 1 each
\* statistics counter equals the number of files that were dispatched to
\* its extractor or skip category: no update is lost.  (Violated: the
\* increments take no lock, and two tasks that read the counter before
\* either writes it leave it one short.)
C22_CountersExact ==
  PhaseOneOver =>
    \A k \in {StatKey(fp) : fp \in all_project_files_set} :
      Dispatched(k) # {} =>
        /\ k \in DOMAIN file_stats
        /\ file_stats[k] = Cardinality(Dispatched(k))

\* with a pool of one worker the tasks run one after the other and the
\* counters are exact
C22_ExactWithOneWorker ==
  PhaseOneOver /\ MAX_THREADS(cpu_count) = 1 =>
    \A k \in {StatKey(fp) : fp \in all_project_files_set} :
      Dispatched(k) # {} =>
        k \in DOMAIN file_stats /\ file_stats[k] = Cardinality(Dispatched(k))

\* the step changes the record of fp
RecordWritten(fp) == all_files_map'[fp] # all_files_map[fp]

\* the step is the collecting thread's, taking the Phase 1 future of fp whose
\* task is over
CollectorTakes(fp) ==
  /\ run_pc = "phase1"
  /\ futures_direct[fp].state = "done"
  /\ futures_direct'[fp].state = "collected"

\* the step is a step of the Phase 2 task whose target is fp
OwnTaskSteps(fp) ==
  /\ run_pc = "phase2"
  /\ cl_phase = "running"
  /\ target_fp = fp
  /\ futures_transitive[fp] = "running"

\* the Phase 2 tasks that have started and are not over have distinct
\* targets, and each is the one task of its target
OneTaskPerTarget ==
  /\ cl_phase = "running" /\ run_pc = "phase2" =>
       /\ target_fp \notin DOMAIN suspended
       /\ futures_transitive[target_fp] = "running"
  /\ \A fp \in DOMAIN suspended : futures_transitive[fp] = "running"

\* C23: in a run, under every interleaving, a record is written by one
\* thread at a time: in Phase 1 only by the collecting thread, for a file
\* whose task is over; in Phase 2 only by the one closure task whose target
\* the file is.
C23_OneWriterPerRecord ==
  /\ [][\A fp \in DOMAIN all_files_map :
          RecordWritten(fp) => CollectorTakes(fp) \/ OwnTaskSteps(fp)]_vars
  /\ []OneTaskPerTarget

\* C23 witness: in Phase 2 one task is executing while another is
\* suspended, and a third task has written its target's record, a
\* transitive set that holds the targets of both.
C23_Witness ==
  /\ run_pc = "phase2"
  /\ cl_phase = "running"
  /\ suspended # EmptyDict
  /\ \E fp \in DOMAIN all_files_map :
       /\ futures_transitive[fp] \in {"finished", "collected"}
       /\ target_fp \in all_files_map[fp].transitive_dependencies
       /\ DOMAIN suspended \subseteq all_files_map[fp].transitive_dependencies

\* the calls of the task function on fp that invoked the extractor
ExtractorCalls(fp) ==
  {i \in 1..Len(returned[fp]) : returned[fp][i].parsed}

\* the calls of the task function on fp that wrote the cache entry of fp
CacheWrites(fp) ==
  {i \in 1..Len(returned[fp]) :
     ~returned[fp][i].raised /\ returned[fp][i].status # "success (cached)"}

\* C24: within one run (cache cleared, Phase 1 then Phase 2), under every
\* interleaving of the worker tasks, the extractor is invoked at most once
\* per file, the cache entry of a path is written at most once, and an
\* entry once written is neither removed nor replaced.
C24_WriteOncePerRun ==
  /\ [](\A fp \in all_project_files_set :
          /\ Cardinality(ExtractorCalls(fp)) <= 1
          /\ Cardinality(CacheWrites(fp)) <= 1)
  /\ [][\A fp \in DOMAIN cache :
          fp \in DOMAIN cache' /\ cache'[fp] = cache[fp]]_vars

\* C24 witness: the run is over; every file was parsed once and has its
\* cache entry, and the Phase 2 tasks, whose closures visited every file
\* from every target, have parsed nothing again.
C24_Witness ==
  /\ run_pc = "finished"
  /\ \A fp \in all_project_files_set :
       /\ Cardinality(ExtractorCalls(fp)) = 1
       /\ fp \in DOMAIN cache
       /\ all_files_map[fp].transitive_dependencies = all_project_files_set

\* C30: when closure computations run concurrently on files that are still
\* "pending", under every interleaving the extractor is invoked at most
\* once per file, and each record that was analysed ends with one
\* consistent direct-dependency set and status.  (Violated in its first
\* part: two computations that both find no cache entry for a file both
\* invoke the extractor.)
C30_OnDemandAtMostOnce ==
  \A fp \in all_project_files_set :
    /\ Cardinality(ExtractorCalls(fp)) <= 1
    /\ Len(returned[fp]) > 0 /\ cl_phase # "analysing" =>
         /\ all_files_map[fp].direct_dependencies = DirectEdges(fp) \ {fp}
         /\ all_files_map[fp].dependency_analysis_status
              \in {"success", "success (cached)"}

\* the second part of that statement alone holds: a record that has been
\* analysed holds the file's direct dependencies and a success status
C30_RecordsConsistent ==
  \A fp \in all_project_files_set :
    Len(returned[fp]) > 0
    /\ all_files_map[fp].dependency_analysis_status # "pending" =>
      /\ all_files_map[fp].direct_dependencies = DirectEdges(fp) \ {fp}
      /\ all_files_map[fp].dependency_analysis_status
           \in {"success", "success (cached)"}

\* a Python specifier, given as its split('.') list, starts with a dot
IsRelative(spec) == Len(spec) >= 2 /\ spec[1] = ""

\* the number of its leading dots: n dots followed by a segment split into
\* n empty strings, n dots alone into n + 1
DotCount(spec) ==
  IF FilterNone(spec) = << >> THEN Len(spec) - 1 ELSE LeadingEmpty(spec)

\* the files a relative specifier means for a file of directory dir: the
\* directory with its last n - 1 components removed, the segments appended,
\* as a module or as a package; nothing when n - 1 exceeds the depth of dir
RelativeTargets(spec, dir) ==
  IF DotCount(spec) - 1 > Len(dir) THEN {}
  ELSE LET path == SubSeq(dir, 1, Len(dir) - (DotCount(spec) - 1))
                   \o FilterNone(spec)
       IN {path \o <<".py">>, path \o <<"__init__", ".py">>}
          \cap all_project_files_set

\* C27: for a Python specifier of n >= 1 leading dots followed by zero or
\* more segments, the resolver takes the current file's directory with its
\* last n - 1 components removed, appends the segments, and returns nothing
\* exactly when n - 1 exceeds the depth of the directory, also when no
\* segment follows the dots.  (Violated for '.' and '..': with no segment
\* after them the dots count one more level.)
C27_RelativeLevel ==
  \A fp \in all_project_files_set :
    \A spec \in content[fp].imports :
      IsRelative(spec) =>
        resolve_import_with_fallbacks(spec, "python_module",
                                      os_path_dirname(fp),
                                      all_project_files_set)
          = RelativeTargets(spec, os_path_dirname(fp))

\* the same for the specifiers in which a segment follows the dots holds
C27_RelativeLevelWithSegments ==
  \A fp \in all_project_files_set :
    \A spec \in content[fp].imports :
      IsRelative(spec) /\ FilterNone(spec) # << >> =>
        resolve_import_with_fallbacks(spec, "python_module",
                                      os_path_dirname(fp),
                                      all_project_files_set)
          = RelativeTargets(spec, os_path_dirname(fp))

\* ------------------------------------------------------------------------
\* C26
\* ------------------------------------------------------------------------
\* the file has a call of _recursive_get_trans past its checks: in its loop
\* or in the analysis made on demand before the loop
Expanding(fp) == \E i \in 1..Len(stack) : stack[i].current_fp = fp

\* a call reaches the part after its checks in this step
CallExpands == Len(stack') > Len(stack)

\* the innermost call ends its loop and writes its memo entry in this step
CallWritesMemo ==
  /\ cl_phase = "running"
  /\ cl_phase' # "failed"
  /\ Len(stack') < Len(stack)

\* C26: within one computation of get_transitive_dependencies_for_file a
\* file is expanded at most once and a memo entry, once written, is never
\* written again, cyclic graphs included: the calls that are expanding are
\* of distinct files with no memo entry; a call starts to expand only a
\* file that has no memo entry and is not being expanded; a call that ends
\* its loop writes an entry that was not there; and every entry stays as it
\* was written.
C26_ExpandedAndWrittenOnce ==
  /\ [](/\ \A i, j \in 1..Len(stack) :
             stack[i].current_fp = stack[j].current_fp => i = j
        /\ \A i \in 1..Len(stack) :
             stack[i].current_fp \notin DOMAIN memo_transitive)
  /\ [][/\ \A fp \in DOMAIN memo_transitive :
             /\ fp \in DOMAIN memo_transitive'
             /\ memo_transitive'[fp] = memo_transitive[fp]
        /\ CallExpands =>
             /\ stack'[Len(stack')].current_fp \notin DOMAIN memo_transitive
             /\ ~Expanding(stack'[Len(stack')].current_fp)
        /\ CallWritesMemo =>
             stack[Len(stack)].current_fp \notin DOMAIN memo_transitive]_vars

\* a computation over a cycle a -> b -> c -> a, with c imported by a as
\* well, has returned: whichever of b and c the loop of a took first, the
\* call for c was made twice and answered from the memo table once
C26_Witness ==
  /\ cl_phase = "done"
  /\ target_fp = <<"a", ".py">>
  /\ max_depth = DefaultMaxDepth
  /\ all_files_map[<<"a", ".py">>].direct_dependencies =
       {<<"b", ".py">>, <<"c", ".py">>}
  /\ all_files_map[<<"b", ".py">>].direct_dependencies = {<<"c", ".py">>}
  /\ all_files_map[<<"c", ".py">>].direct_dependencies = {<<"a", ".py">>}
  /\ DOMAIN memo_transitive = PyProject

\* ------------------------------------------------------------------------
\* C25
\* ------------------------------------------------------------------------
\* the files the computation that has returned expanded: those of the
\* project with a memo entry
Expanded == DOMAIN memo_transitive \cap DOMAIN all_files_map

\* C25: a closure computation for a target made while files were still
\* "pending" returns the same set as a computation for that target, with
\* the same max_depth, made once no file is "pending" any more; and when a
\* computation has returned, every file it expanded has a status other than
\* "pending" and holds the direct dependencies its source gives.
C25_OnDemandSameAsAnalysedBefore ==
  /\ \A t \in DOMAIN calls_transitive :
       \A i, j \in 1..Len(calls_transitive[t]) :
         LET early == calls_transitive[t][i]
             late == calls_transitive[t][j]
         IN (/\ early.returned /\ late.returned
             /\ early.pending > 0 /\ late.pending = 0
             /\ early.max_depth = late.max_depth)
              => early.value = late.value
  /\ cl_phase = "done" =>
       \A fp \in Expanded :
         /\ all_files_map[fp].dependency_analysis_status # "pending"
         /\ all_files_map[fp].direct_dependencies = DirectEdges(fp)

\* C25 witness: the closure of a.py over a.py -> b.py -> c.py was computed
\* when no file had been analysed, so that the three were analysed on
\* demand, and once more when none was "pending"; both calls returned
\* b.py and c.py.
C25_Witness ==
  /\ cl_phase = "done"
  /\ Len(calls_transitive[<<"a", ".py">>]) = 2
  /\ calls_transitive[<<"a", ".py">>][1].pending = Cardinality(PyProject)
  /\ calls_transitive[<<"a", ".py">>][1].returned
  /\ calls_transitive[<<"a", ".py">>][2].pending = 0
  /\ calls_transitive[<<"a", ".py">>][2].returned
  /\ calls_transitive[<<"a", ".py">>][2].value = {<<"b", ".py">>, <<"c", ".py">>}
  /\ DirectEdges(<<"a", ".py">>) = {<<"b", ".py">>}
  /\ DirectEdges(<<"b", ".py">>) = {<<"c", ".py">>}
  /\ Expanded = PyProject

\* ------------------------------------------------------------------------
\* C28
\* ------------------------------------------------------------------------
\* C28: for a fixed project, target and max_depth the transitive set
\* computed for the target does not depend on the order in which the
\* direct-dependency sets are iterated: any two calls for the same target
\* with the same max_depth that have returned have returned the same set,
\* also where a file is reached by a chain longer than the cap and by a
\* shorter one.  (Violated: for a.py -> {b.py, c.py}, b.py -> c.py,
\* c.py -> d.py, d.py -> a.py and max_depth = 2 the closure of a.py holds
\* a.py when c.py is taken first and does not when b.py is taken first.)
C28_SameForEveryOrder ==
  \A t \in DOMAIN calls_transitive :
    \A i, j \in 1..Len(calls_transitive[t]) :
      (/\ calls_transitive[t][i].returned
       /\ calls_transitive[t][j].returned
       /\ calls_transitive[t][i].max_depth = calls_transitive[t][j].max_depth)
        => calls_transitive[t][i].value = calls_transitive[t][j].value

\* ------------------------------------------------------------------------
\* C29
\* ------------------------------------------------------------------------
\* the target has a call that returned
Answered(t) ==
  \E i \in 1..Len(calls_transitive[t]) : calls_transitive[t][i].returned

\* the last call for the target that returned
LastAnswer(t) ==
  LET log == calls_transitive[t]
      last == CHOOSE i \in 1..Len(log) :
                /\ log[i].returned
                /\ \A j \in 1..Len(log) : log[j].returned => j <= i
  IN log[last]

\* C29: the closures computed for the targets by separate calls with one
\* max_depth are consistent with each other: if B is in the set returned
\* for A, the set returned for B is a subset of the set returned for A.
\* (Violated when the cap cuts the computation for A: with max_depth = 0
\* and a.py -> b.py -> c.py the sets are {b.py} and {c.py}.)
C29_ClosuresConsistent ==
  \A A, B \in all_project_files_set :
    (/\ Answered(A) /\ Answered(B)
     /\ LastAnswer(A).max_depth = LastAnswer(B).max_depth
     /\ B \in LastAnswer(A).value)
      => LastAnswer(B).value \subseteq LastAnswer(A).value

\* C29 amended: the same, provided the cap does not cut the computation
\* for A: the set returned for B is a subset of the set returned for A
\* unless a chain of distinct files that starts at A is longer than
\* max_depth edges.
C29_ClosuresConsistentBelowCap ==
  \A A, B \in all_project_files_set :
    (/\ Answered(A) /\ Answered(B)
     /\ LastAnswer(A).max_depth = LastAnswer(B).max_depth
     /\ B \in LastAnswer(A).value)
      => \/ LastAnswer(B).value \subseteq LastAnswer(A).value
         \/ LongestChain(A, {A}) > LastAnswer(A).max_depth

\* C29 witness: two calls with an explicit max_depth have returned, for two
\* different files A and B: the chains from A are within the cap, B is in
\* the set of A and the set of B has a file other than A and B.
C29_Witness ==
  \E A, B \in all_project_files_set :
    /\ A # B
    /\ Answered(A) /\ Answered(B)
    /\ LastAnswer(A).max_depth = LastAnswer(B).max_depth
    /\ LastAnswer(A).max_depth # DefaultMaxDepth
    /\ B \in LastAnswer(A).value
    /\ LastAnswer(B).value \ {A, B} # {}
    /\ LongestChain(A, {A}) <= LastAnswer(A).max_depth

====
